---- MODULE Spec2Model ----
(***************************************************************************)
(* Alert throttling of tornado-monitor: HealthAlertService,                *)
(* TelegramAlertSender and PriceAlertService each decide from their        *)
(* per-key maps whether an alert is handed to Telegram; the health         *)
(* monitor raises the alerts.                                              *)
(*                                                                         *)
(* sendAlert is an async method: everything up to the await of the         *)
(* Telegram send runs as one step, everything after the await as a second  *)
(* step, and other calls may run in between.  A process is built with one  *)
(* of the three services (svc).                                            *)
(***************************************************************************)
EXTENDS Integers, Sequences, FiniteSets, TLC

\* ------------------------------------------------------------------ bounds
\* Value of Date.now() when the process starts (any positive instant).
StartTime == 1000
\* Minutes of wall-clock time explored after the start.
MaxMinutes == 26
\* Number of sendAlert calls that may be awaiting the Telegram send at once.
MaxCalls == 2
\* Cap on the burst counter of a key (the code's counter is unbounded).
MaxCount == 4
\* Longest time, in ms, that the clock moves while a send is awaited.
MaxSendDelay == 60000
\* Minutes explored after the start by a process built for price alerts.
PriceMaxMinutes == 1
\* Health checks that may be awaiting their response at once.
MaxPendingChecks == 1
\* Cap on consecutiveFailures (the code's counter is unbounded).
MaxFailures == 6
\* Health checks started by one monitor (by start() and by its timer).
MaxChecks == 6
\* Health checks started by the health monitor when it runs beside the
\* senders and the price monitor.
PollerMaxChecks == 3
\* start() calls of one price monitor that get as far as asking the price.
MaxPriceStarts == 2
\* checkPrice calls started by the timers of one price monitor.
MaxPriceChecks == 2
\* updateConfig calls made on one price monitor.
MaxPriceUpdates == 1
\* start() and checkPrice() calls of one price monitor in progress at once.
MaxPriceProcs == 2
\* Callbacks registered with ConfigLoader.watchConfig.
MaxCallbacks == 2
\* Writes of the configuration file.
MaxFileWrites == 2
\* Notifications of the file watcher.
MaxNotifications == 3
\* Reloads of a configuration that disables the price monitor.
MaxDisables == 1
\* saveStakeBurnedEvent calls made on one database.
MaxSaves == 3
\* getTornPriceEth calls made on one price service.
MaxPriceCalls == 3
\* Minutes the clock of the price service runs.
ServiceMaxMinutes == 2
\* Blocks of the chain searched by timestamp, and their largest timestamp.
MaxBlocks == 4
MaxStamp == 3
\* Half timeouts that pass while health requests are watched.
MaxRequestTicks == 4
\* Minutes the clock runs while the bursts of one key are watched.
BurstMaxMinutes == 16
\* Blocks mined while the listener is watched, and the configured
\* historicalBlocks.
MaxMined == 2
HistoricalBlocks == 1

\* --------------------------------------------------------------- constants
MINUTE == 60 * 1000
MaxTime == StartTime + MaxMinutes * MINUTE

\* HealthAlertService
BURST_LIMIT == 3
BURST_WINDOW == 15 * 60 * 1000
DEFAULT_MIN_ALERT_INTERVAL == 5 * 60 * 1000
\* TelegramAlertSender
TAS_BURST_LIMIT == 3
TAS_BURST_WINDOW == 15 * 60 * 1000
TAS_DEFAULT_MIN_ALERT_INTERVAL == 5 * 60 * 1000
\* PriceAlertService
PRICE_MIN_ALERT_INTERVAL == 60 * 1000

\* Map.get() of a key that was never set (undefined).
Absent == -1
\* JavaScript truthiness of `number | undefined`.
Truthy(x) == x # Absent /\ x # 0

\* Strings are sequences of tokens, so that a template literal is a
\* concatenation.
Networks == { <<"ethereum">>, <<"bsc">> }
RecoveryMessage == <<"API has recovered and is now healthy">>
Messages == { RecoveryMessage }

\* MonitorConfig of the monitored network (the defaults of the config loader)
ConfigName == <<"ethereum">>
ConfigInterval == 30000
ConfigMaxQueue == 3
ConfigMaxConsecutiveFailures == 3
\* Queue sizes above maxQueue that the API may report.
QueueSizes == {4}

\* `API has been unhealthy for ${this.consecutiveFailures} consecutive checks`
FailureMessage(failures) ==
  <<"API has been unhealthy for ", ToString(failures), " consecutive checks">>
\* `Queue size is high: ${queueSize} (max: ${this.config.maxQueue})`
QueueMessage(queueSize) ==
  <<"Queue size is high: ", ToString(queueSize), " (max: ",
    ToString(ConfigMaxQueue), ")">>
MonitorMessages ==
  { RecoveryMessage } \cup { FailureMessage(f) : f \in 1..(MaxFailures + 1) }
    \cup { QueueMessage(q) : q \in QueueSizes }

\* AlertKey keyed by the message alone.
AlertKey_MessageOnly(networkName, message) == <<":">> \o message

\* `${alert.networkName}:${alert.message}`
AlertKey(networkName, message) == networkName \o <<":">> \o message
\* `${networkName}:${message}` of TelegramAlertSender
TasAlertKey(networkName, message) == networkName \o <<":">> \o message
HealthKeys ==
  { AlertKey(n, m) : n \in Networks, m \in Messages }
    \cup { AlertKey(ConfigName, m) : m \in MonitorMessages }
TasKeys == { TasAlertKey(n, m) : n \in Networks, m \in Messages }

PriceTypes == { "startup", "price_change", "price_threshold",
                "config_update", "service_status" }
Prices == { <<"0.005">> }
\* Prices that getTornPriceEth() reports to the price monitor.
MonitorPrices == { <<"0", ".", "0", "0", "8">>, <<"0", ".", "0", "1">> }
\* Prices that differ by less than priceChangeThreshold from the next one.
DriftPrices ==
  { <<"0", ".", "0", "1", "0", "0">>, <<"0", ".", "0", "1", "0", "3">>,
    <<"0", ".", "0", "1", "0", "6">> }
\* Prices on both sides of the documented thresholds, high 0.01 and low
\* 0.005.
ThresholdPrices == MonitorPrices \cup { <<"0", ".", "0", "0", "5">> }
\* `${alert.currentPrice}` of an alert that has no currentPrice
NoCurrentPrice == <<"undefined">>
\* `${alert.type}:${alert.currentPrice}`
PriceAlertKey(type, currentPrice) == <<type>> \o <<":">> \o currentPrice
PriceKeys ==
  { PriceAlertKey(ty, p) :
      ty \in PriceTypes,
      p \in Prices \cup MonitorPrices \cup DriftPrices \cup ThresholdPrices
             \cup {NoCurrentPrice} }

AllKeys == HealthKeys \cup TasKeys \cup PriceKeys

\* Arguments of setAlertInterval(minutes) tried by the environment.
IntervalMinutes == {0, 5, 20}

\* What the Telegram API does with one request: a 2xx answer with ok = true,
\* a 2xx answer with another ok, a 2xx answer whose body is not JSON, a
\* non-2xx answer, no answer.
Outcomes == { "ok", "not_ok", "bad_body", "http_error", "network_error" }

Calls == 1..MaxCalls
NoCall == [key |-> <<>>, now |-> 0, currentCount |-> 0,
           preLast |-> Absent, preCount |-> Absent, solo |-> FALSE]

VARIABLES
  svc,                 \* the alert service this process was built with
  configured,          \* a TelegramConfig was given to the service
  enabled,             \* TelegramConfig.enabled
  now,                 \* Date.now()
  lastAlertTime,       \* HealthAlertService.lastAlertTime
  alertCounts,         \* HealthAlertService.alertCounts
  MIN_ALERT_INTERVAL,  \* HealthAlertService.MIN_ALERT_INTERVAL
  tasLastAlertTime,    \* TelegramAlertSender.lastAlertTime
  tasAlertCounts,      \* TelegramAlertSender.alertCounts
  tasMinAlertInterval, \* TelegramAlertSender.MIN_ALERT_INTERVAL
  priceLastAlertTime,  \* PriceAlertService.lastAlertTime
  calls,               \* sendAlert calls awaiting the Telegram send
  fresh,               \* history: per key, the attempts made since its burst
                       \* counter was absent or reset, if they were made one
                       \* after the other and all were sent successfully
  hist,                \* history: the attempts of the scenario key
  isRunning,           \* TornadoHealthMonitor.isRunning
  consecutiveFailures, \* TornadoHealthMonitor.consecutiveFailures
  lastSuccessfulCheck, \* TornadoHealthMonitor.lastSuccessfulCheck
  intervalId,          \* the interval timers of the monitor that are active
  pendingChecks,       \* start times of the checkHealth calls awaiting
                       \* the API's response
  checksStarted,       \* history: checkHealth calls so far
  outage,              \* history: the failure alerts sent in this outage
  priceConfig,         \* TornPriceMonitor.config
  priceIsRunning,      \* TornPriceMonitor.isRunning
  priceIntervalId,     \* TornPriceMonitor.intervalId is set
  priceTimers,         \* intervals (s) of the active timers of the price
                       \* monitor; intervalId, when set, is the last one
  lastPrice,           \* TornPriceMonitor.lastPrice
  priceProcs,          \* start() and checkPrice() calls in progress, and
                       \* the updateConfig() call being executed
  priceWork,           \* history: calls made on the price monitor so far,
                       \* the price at which it started or raised its
                       \* latest price_change alert, and the price read last
  lastResult,          \* history: the answer given to the health check that
                       \* ended last and the HealthCheckResult it returned
  configFile,          \* content of the watched configuration file
  watcherCallbacks,    \* ConfigLoader.watcherCallbacks, by their number
  reloadTimeout,       \* due times of the pending timeouts of watchConfig
  serviceConfig,       \* TornadoMonitorService.config of the service behind
                       \* each watcher callback
  loaderHist,          \* history: the latest change notification, the reloads
                       \* made since its run began, the reloads rejected
  tornPriceMonitor,    \* TornadoMonitorService.tornPriceMonitor is set
  reloads,             \* handleConfigReload calls that disable the price
                       \* monitor: those at their await, those made, and
                       \* whether one has been processed to its end
  connection,          \* Database.connection is set
  eventTable,          \* the rows of the table stake_burned_events
  saves,               \* saveStakeBurnedEvent calls awaiting the server
  dbHist,              \* history: saveStakeBurnedEvent calls made so far
  lastKnownPrice,      \* TornPriceService.lastKnownPrice
  lastFetchTime,       \* TornPriceService.lastFetchTime
  priceCalls,          \* getTornPriceEth calls awaiting an API: the URL asked
  serviceHist,         \* history: getTornPriceEth calls made so far, and
                       \* whether one has returned a price
  chain,               \* timestamps of the blocks 1..latest of the provider
  search,              \* the getBlockByTimestamp call: its target, position,
                       \* low, high and result
  healthRequest,       \* the request of the checkHealth call in flight: its
                       \* position, start time and abort timer
  emitted,             \* history: when the sends of the last alerts of one
                       \* key that Telegram accepted ended
  blocks,              \* the chain: what each block holds of StakeBurned
  listener,            \* StakeBurnedListener on its way through start()
  processed,           \* history: blocks whose event was passed to
                       \* processStakeBurnedEvent
  ev                   \* history: the step taken last

healthVars == <<lastAlertTime, alertCounts, MIN_ALERT_INTERVAL>>
tasVars == <<tasLastAlertTime, tasAlertCounts, tasMinAlertInterval>>
priceVars == <<priceLastAlertTime>>
envVars == <<svc, configured, enabled, now>>

monitorVars == <<isRunning, consecutiveFailures, lastSuccessfulCheck,
                 intervalId, pendingChecks, checksStarted, outage>>

priceMonitorVars == <<priceConfig, priceIsRunning, priceIntervalId,
                      priceTimers, lastPrice, priceProcs, priceWork>>

loaderVars == <<configFile, watcherCallbacks, reloadTimeout, serviceConfig,
                loaderHist>>

dbVars == <<connection, eventTable, saves, dbHist>>

listenerVars == <<blocks, listener, processed>>

priceServiceVars == <<lastKnownPrice, lastFetchTime, priceCalls, serviceHist>>

searchVars == <<chain, search>>

requestVars == <<healthRequest, emitted>>

hostVars == <<loaderVars, tornPriceMonitor, reloads, dbVars, listenerVars, priceServiceVars,
              searchVars, requestVars>>

vars == <<svc, configured, enabled, now, lastAlertTime, alertCounts,
          MIN_ALERT_INTERVAL, tasLastAlertTime, tasAlertCounts,
          tasMinAlertInterval, priceLastAlertTime, calls, fresh, hist,
          isRunning, consecutiveFailures, lastSuccessfulCheck, intervalId,
          pendingChecks, checksStarted, outage, priceConfig, priceIsRunning,
          priceIntervalId, priceTimers, lastPrice, priceProcs, priceWork,
          lastResult, configFile, watcherCallbacks, reloadTimeout,
          serviceConfig, loaderHist, tornPriceMonitor, reloads, connection,
          eventTable, saves, dbHist, lastKnownPrice, lastFetchTime,
          priceCalls, serviceHist, chain, search, healthRequest, emitted,
          blocks, listener, processed, ev>>

NoEv == [op |-> "init", key |-> <<>>, allowed |-> FALSE, success |-> FALSE,
         reset |-> FALSE, rendered |-> FALSE, nth |-> 0, fromReset |-> FALSE,
         last |-> Absent, cnt |-> Absent, solo |-> FALSE,
         generic |-> FALSE, price |-> FALSE,
         outcome |-> "none", result |-> "none"]

NotFresh == [n |-> -1, fromReset |-> FALSE]
InFlight(key) == { c \in Calls : calls[c] # NoCall /\ calls[c].key = key }

\* 1, 2, 3, ...: the place of an attempt on `key` among the attempts made
\* since the counter was absent or reset; 0 when an earlier one failed,
\* overlapped or was suppressed.
Nth(key, wasReset) ==
  IF InFlight(key) # {} THEN 0
  ELSE IF wasReset THEN 1
  ELSE IF fresh[key].n = -1 THEN 0 ELSE fresh[key].n + 1

FreshAfterBegin(key, wasReset, allowed, limit) ==
  LET n == Nth(key, wasReset) IN
  IF n = 0 \/ n > limit \/ ~allowed THEN NotFresh
  ELSE [n |-> n, fromReset |-> IF wasReset THEN TRUE ELSE fresh[key].fromReset]

\* Calls on `key` that are in flight when another one starts overlap.
MarkOverlap(key) ==
  [c \in Calls |-> IF c \in InFlight(key)
                   THEN [calls[c] EXCEPT !.solo = FALSE] ELSE calls[c]]

\* The scenario of the burst throttle: attempts on one key at whole minutes
\* after the start, one at a time, each sent successfully.
ScenarioMinutes == {0, 1, 2, 3, 6, 7, 25}
ScenarioKey == AlertKey(<<"ethereum">>, RecoveryMessage)
OffScript == << <<-1, FALSE, FALSE>> >>
HistAfterBegin(key, allowed, wasReset) ==
  IF key # ScenarioKey THEN hist
  ELSE IF /\ hist # OffScript
          /\ InFlight(key) = {}
          /\ \E m \in ScenarioMinutes : now = StartTime + m * MINUTE
          /\ \A i \in 1..Len(hist) : StartTime + hist[i][1] * MINUTE < now
       THEN Append(hist, <<(now - StartTime) \div MINUTE, allowed, wasReset>>)
       ELSE OffScript
HistAfterComplete(key, success) ==
  IF key = ScenarioKey /\ ~success THEN OffScript ELSE hist

\* ------------------------------------------------------- TelegramClient
\* The try block of sendMessage: fetch rejects on a transport error, the
\* code throws on !response.ok, response.json() rejects on a body that is
\* not JSON, and otherwise the value is `result.ok === true`.
SendMessageTry(outcome) ==
  CASE outcome = "network_error" -> "throw"
    [] outcome = "http_error" -> "throw"
    [] outcome = "bad_body" -> "throw"
    [] outcome = "ok" -> "true"
    [] OTHER -> "false"

\* sendMessage letting the error through.
SendMessageResult_NoCatch(outcome) ==
  IF ~enabled THEN "false"
  ELSE IF SendMessageTry(outcome) = "throw" THEN "reject"
  ELSE SendMessageTry(outcome)

\* sendMessage(message): what the returned promise settles to.
\* `if (!this.config.enabled) return false`, then try { ... } catch
\* { return false }.
SendMessageResult(outcome) ==
  IF ~enabled THEN "false"
  ELSE IF SendMessageTry(outcome) = "throw" THEN "false"
  ELSE SendMessageTry(outcome)

\* the value `success` that `await ...sendMessage(message)` gives
sendMessage(outcome) == SendMessageResult(outcome) = "true"

\* what sendAlert has settled to when it returns before its await: false
\* when the alert is throttled; otherwise it is still pending
EarlyResult(throttled) == IF throttled THEN "false" ELSE "none"

\* --------------------------------------------------- HealthAlertService
\* constructor: if (telegramConfig?.enabled) this.telegramClient = new ...
telegramClient == configured /\ enabled

\* isEnabled() accepting every service.
isEnabled_Always == TRUE

\* isEnabled(): this.telegramClient?.isEnabled() ?? false
isEnabled == telegramClient /\ enabled

\* if (lastAlert && now - lastAlert > this.BURST_WINDOW)
WindowPassed_Short(lastAlert, t) == Truthy(lastAlert) /\ t - lastAlert > MINUTE

WindowPassed(lastAlert, t) == Truthy(lastAlert) /\ t - lastAlert > BURST_WINDOW

\* CountsAfterReset without the reset.
CountsAfterReset_NoReset(counts, key, lastAlert, t) == counts

\* this.alertCounts.set(alertKey, 0) under that condition
CountsAfterReset(counts, key, lastAlert, t) ==
  IF WindowPassed(lastAlert, t) THEN [counts EXCEPT ![key] = 0] ELSE counts

\* this.alertCounts.get(alertKey) || 0
CurrentCount(counts, key) == IF Truthy(counts[key]) THEN counts[key] ELSE 0

\* Throttled with the interval's end still throttled.
Throttled_Inclusive(currentCount, lastAlert, t, minInterval) ==
  /\ currentCount >= BURST_LIMIT
  /\ Truthy(lastAlert)
  /\ t - lastAlert <= minInterval

\* the two nested ifs that end in `return false`
Throttled(currentCount, lastAlert, t, minInterval) ==
  /\ currentCount >= BURST_LIMIT
  /\ Truthy(lastAlert)
  /\ t - lastAlert < minInterval

\* The decision sendAlert takes for `key` at instant t with the given maps.
Allowed(times, counts, key, t, minInterval) ==
  ~Throttled(CurrentCount(CountsAfterReset(counts, key, times[key], t), key),
             times[key], t, minInterval)

\* sendAlert(alert) up to `await this.telegramClient!.sendMessage(message)`
HealthSendAlert(c, networkName, message) ==
  LET alertKey == AlertKey(networkName, message)
      lastAlert == lastAlertTime[alertKey]
      wasReset == WindowPassed(lastAlert, now)
      counts1 == CountsAfterReset(alertCounts, alertKey, lastAlert, now)
      currentCount == CurrentCount(counts1, alertKey)
      throttled == Throttled(currentCount, lastAlert, now, MIN_ALERT_INTERVAL)
      e == [NoEv EXCEPT !.op = "begin", !.key = alertKey, !.last = lastAlert,
                        !.cnt = alertCounts[alertKey]]
  IN
  /\ svc = "health"
  /\ calls[c] = NoCall /\ \A d \in Calls : d < c => calls[d] # NoCall
  /\ IF ~isEnabled
     THEN /\ ev' = [e EXCEPT !.op = "disabled", !.result = "false"]
          /\ UNCHANGED <<alertCounts, calls, fresh, hist>>
     ELSE /\ currentCount < MaxCount
          /\ alertCounts' = counts1
          /\ fresh' = [fresh EXCEPT ![alertKey] =
                FreshAfterBegin(alertKey, wasReset, ~throttled, BURST_LIMIT)]
          /\ hist' = HistAfterBegin(alertKey, ~throttled, wasReset)
          /\ ev' = [e EXCEPT !.allowed = ~throttled, !.reset = wasReset,
                             !.result = EarlyResult(throttled),
                             !.rendered = ~throttled,
                             !.nth = Nth(alertKey, wasReset),
                             !.fromReset = IF wasReset THEN TRUE
                                           ELSE fresh[alertKey].fromReset]
          /\ IF throttled
             THEN calls' = calls
             ELSE calls' = [MarkOverlap(alertKey) EXCEPT ![c] =
                    [key |-> alertKey, now |-> now,
                     currentCount |-> currentCount,
                     preLast |-> lastAlert,
                     preCount |-> alertCounts[alertKey],
                     solo |-> InFlight(alertKey) = {}]]
  /\ UNCHANGED <<lastAlertTime, MIN_ALERT_INTERVAL>>

\* if (success) { this.lastAlertTime.set(alertKey, now); ... }
TimesAfterSend(times, call, success) ==
  IF success THEN [times EXCEPT ![call.key] = call.now] ELSE times

\* CountsAfterSend counting failed sends too.
CountsAfterSend_Always(counts, call, success) ==
  [counts EXCEPT ![call.key] = call.currentCount + 1]

\* if (success) { ...; this.alertCounts.set(alertKey, currentCount + 1); }
CountsAfterSend(counts, call, success) ==
  IF success THEN [counts EXCEPT ![call.key] = call.currentCount + 1]
  ELSE counts

\* what sendAlert settles to after the await: `return success`, or the
\* rejection of the awaited sendMessage, which nothing catches here
HealthSendAlertResult(outcome) == SendMessageResult(outcome)

\* sendAlert(alert) after the await: `if (success) {...} return success`
HealthSendComplete(c, outcome) ==
  LET call == calls[c]
      success == sendMessage(outcome)
  IN
  /\ svc = "health"
  /\ call # NoCall
  /\ lastAlertTime' = TimesAfterSend(lastAlertTime, call, success)
  /\ alertCounts' = CountsAfterSend(alertCounts, call, success)
  /\ fresh' = IF success THEN fresh ELSE [fresh EXCEPT ![call.key] = NotFresh]
  /\ hist' = HistAfterComplete(call.key, success)
  /\ ev' = [NoEv EXCEPT !.op = "complete", !.key = call.key,
                        !.allowed = TRUE, !.success = success,
                        !.last = call.preLast, !.cnt = call.preCount,
                        !.solo = call.solo,
                        !.result = HealthSendAlertResult(outcome)]
  /\ calls' = [calls EXCEPT ![c] = NoCall]
  /\ UNCHANGED MIN_ALERT_INTERVAL

\* setAlertInterval(minutes), called while the service is being set up
setAlertInterval(minutes) ==
  /\ svc = "health"
  /\ \A k \in HealthKeys : lastAlertTime[k] = Absent
  /\ \A c \in Calls : calls[c] = NoCall
  /\ MIN_ALERT_INTERVAL' = minutes * 60 * 1000
  /\ MIN_ALERT_INTERVAL' # MIN_ALERT_INTERVAL
  /\ ev' = [NoEv EXCEPT !.op = "setAlertInterval"]
  /\ UNCHANGED <<lastAlertTime, alertCounts, calls, fresh, hist>>

\* -------------------------------------------------- TornadoHealthMonitor
NoOutage == [sent |-> 0, last |-> Absent]
IsFailureKey(key) ==
  \E f \in 1..(MaxFailures + 1) : key = AlertKey(ConfigName, FailureMessage(f))

\* The monitor's sends are explored one at a time.
MonitorCalls == {1}

\* What one health check finds: a healthy answer, health.status != "true",
\* a queue above maxQueue, a body of the wrong structure, or a failed request.
CheckOutcomes ==
  { <<"healthy", 0>>, <<"unhealthy", 0>>, <<"invalid", 0>>, <<"error", 0>> }
    \cup { <<"high_queue", q>> : q \in QueueSizes }
\* The same with the healthy answer whose `instances` is null, on which
\* onHealthy throws.
AllCheckOutcomes == CheckOutcomes \cup { <<"healthy_error", 0>> }

\* this.healthAlertService.sendAlert({...}), run up to its await
RaiseAlert(message) ==
  \E c \in MonitorCalls : HealthSendAlert(c, ConfigName, message)
RaiseNothing ==
  /\ ev' = [NoEv EXCEPT !.op = "check"]
  /\ UNCHANGED <<healthVars, calls, fresh, hist>>

\* onHealthy(result)
onHealthy(timestamp) ==
  LET wasUnhealthy == consecutiveFailures > 0 IN
  /\ consecutiveFailures' = 0
  /\ lastSuccessfulCheck' = timestamp
  /\ outage' = NoOutage
  /\ IF wasUnhealthy THEN RaiseAlert(RecoveryMessage) ELSE RaiseNothing

\* onHealthy(result) throwing at Object.keys(data.instances) after it has
\* reset the counter and raised the recovery alert, and then onError(result)
\* from the catch block of checkHealth. The counter becomes 1, which is below
\* maxConsecutiveFailures, so onError raises nothing.
onHealthyThrows(timestamp) ==
  LET wasUnhealthy == consecutiveFailures > 0 IN
  /\ consecutiveFailures' = 0 + 1
  /\ lastSuccessfulCheck' = timestamp
  /\ outage' = NoOutage
  /\ IF wasUnhealthy THEN RaiseAlert(RecoveryMessage) ELSE RaiseNothing

\* sendConsecutiveFailureAlert(), run up to the await inside sendAlert
sendConsecutiveFailureAlert(failures) == RaiseAlert(FailureMessage(failures))

\* onUnhealthy(result, reason) and onError(result)
onUnhealthy ==
  /\ consecutiveFailures < MaxFailures
  /\ consecutiveFailures' = consecutiveFailures + 1
  /\ UNCHANGED <<lastSuccessfulCheck, outage>>
  /\ IF consecutiveFailures' >= ConfigMaxConsecutiveFailures
     THEN sendConsecutiveFailureAlert(consecutiveFailures')
     ELSE RaiseNothing

\* onQueueWarning(result, queueSize)
onQueueWarning(queueSize) ==
  /\ consecutiveFailures < MaxFailures
  /\ consecutiveFailures' = consecutiveFailures + 1
  /\ UNCHANGED <<lastSuccessfulCheck, outage>>
  /\ RaiseAlert(QueueMessage(queueSize))

\* checkHealth() from the arrival of the API's answer (or of the error)
checkHealth(i, outcome) ==
  /\ svc = "health"
  /\ i \in 1..Len(pendingChecks)
  /\ pendingChecks' = SubSeq(pendingChecks, 1, i - 1)
                        \o SubSeq(pendingChecks, i + 1, Len(pendingChecks))
  /\ CASE outcome[1] = "healthy" -> onHealthy(pendingChecks[i])
       [] outcome[1] = "healthy_error" -> onHealthyThrows(pendingChecks[i])
       [] outcome[1] = "high_queue" -> onQueueWarning(outcome[2])
       [] OTHER -> onUnhealthy
  /\ UNCHANGED <<isRunning, intervalId, checksStarted>>

\* What the endpoint does with the request of one check: no answer before
\* the timeout aborts the request, a failed request, an answer with a
\* non-2xx status, or a 2xx answer whose body is not JSON, lacks a field,
\* has health = null, has instances = null, or has every field, with
\* health.status and currentQueue as given.
NoAnswer(arrival) ==
  [arrival |-> arrival, ok |-> FALSE, body |-> "none", status |-> "none",
   currentQueue |-> 0]
Answers ==
  { NoAnswer(a) : a \in {"timeout", "network_error"} }
  \cup { [NoAnswer("answer") EXCEPT !.ok = o, !.body = "not_json"] :
           o \in BOOLEAN }
  \cup { [arrival |-> "answer", ok |-> TRUE, body |-> b, status |-> st,
          currentQueue |-> q] :
           b \in {"complete", "missing_field", "health_null",
                  "instances_null"},
           st \in {"true", "false"},
           q \in {ConfigMaxQueue} \cup QueueSizes }

\* validateResponse(data): true, false, or the TypeError of reading
\* data.health.status when health is null (typeof null is "object")
validateResponse(answer) ==
  CASE answer.body = "health_null" -> "throw"
    [] answer.body = "missing_field" -> "false"
    [] OTHER -> "true"

\* The try block of checkHealth: the handler it runs for an answer
Classify(answer) ==
  IF answer.arrival # "answer" THEN <<"error", 0>>
  ELSE IF ~answer.ok THEN <<"error", 0>>
  ELSE IF answer.body = "not_json" THEN <<"error", 0>>
  ELSE IF validateResponse(answer) = "throw" THEN <<"error", 0>>
  ELSE IF validateResponse(answer) = "false" THEN <<"invalid", 0>>
  ELSE IF answer.status # "true" THEN <<"unhealthy", 0>>
  ELSE IF answer.currentQueue > ConfigMaxQueue
  THEN <<"high_queue", answer.currentQueue>>
  ELSE IF answer.body = "instances_null" THEN <<"healthy_error", 0>>
  ELSE <<"healthy", 0>>

\* result.isHealthy of the HealthCheckResult that checkHealth returns
IsHealthy(answer) == Classify(answer)[1] = "healthy"

NoResult == [answer |-> NoAnswer("none"), isHealthy |-> FALSE]

\* checkHealth() from the arrival of the answer to its return
checkHealthAnswer(i, answer) ==
  /\ checkHealth(i, Classify(answer))
  /\ lastResult' = [answer |-> answer, isHealthy |-> IsHealthy(answer)]

\* start()
MonitorStart_Unguarded ==
  /\ svc = "health"
  /\ Len(pendingChecks) < MaxPendingChecks
  /\ checksStarted < MaxChecks
  /\ isRunning' = TRUE
  /\ pendingChecks' = Append(pendingChecks, now)
  /\ intervalId' = intervalId + 1
  /\ checksStarted' = checksStarted + 1
  /\ ev' = [NoEv EXCEPT !.op = "start"]
  /\ UNCHANGED <<consecutiveFailures, lastSuccessfulCheck, outage,
                 healthVars, calls, fresh, hist>>

MonitorStart ==
  /\ svc = "health"
  /\ IF isRunning
     THEN UNCHANGED <<isRunning, intervalId, pendingChecks>>
     ELSE /\ Len(pendingChecks) < MaxPendingChecks
          /\ checksStarted < MaxChecks
          /\ isRunning' = TRUE
          /\ pendingChecks' = Append(pendingChecks, now)
          /\ intervalId' = intervalId + 1
  /\ checksStarted' = IF isRunning THEN checksStarted ELSE checksStarted + 1
  /\ ev' = [NoEv EXCEPT !.op = "start"]
  /\ UNCHANGED <<consecutiveFailures, lastSuccessfulCheck, outage,
                 healthVars, calls, fresh, hist>>

\* stop()
MonitorStop ==
  /\ svc = "health"
  /\ IF ~isRunning
     THEN UNCHANGED <<isRunning, intervalId>>
     ELSE /\ isRunning' = FALSE
          /\ intervalId' = IF intervalId # 0 THEN intervalId - 1 ELSE 0
  /\ ev' = [NoEv EXCEPT !.op = "stop"]
  /\ UNCHANGED <<consecutiveFailures, lastSuccessfulCheck, pendingChecks,
                 checksStarted, outage, healthVars, calls, fresh, hist>>

\* the callback of setInterval: this.checkHealth(), config.interval later
TimerFire ==
  /\ intervalId > 0
  /\ checksStarted < MaxChecks
  /\ Len(pendingChecks) < MaxPendingChecks
  /\ now + ConfigInterval <= MaxTime
  /\ \A c \in Calls :
       calls[c] # NoCall => now + ConfigInterval - calls[c].now <= MaxSendDelay
  /\ now' = now + ConfigInterval
  /\ checksStarted' = checksStarted + 1
  /\ pendingChecks' = Append(pendingChecks, now')
  /\ ev' = [NoEv EXCEPT !.op = "timer"]
  /\ UNCHANGED <<svc, configured, enabled, isRunning, consecutiveFailures,
                 lastSuccessfulCheck, intervalId, outage, healthVars, tasVars,
                 priceVars, calls, fresh, hist, priceMonitorVars, lastResult, hostVars>>

\* the end of a send raised by the monitor
MonitorSendComplete(c, outcome) ==
  /\ HealthSendComplete(c, outcome)
  /\ outage' = IF sendMessage(outcome) /\ IsFailureKey(calls[c].key)
               THEN [sent |-> outage.sent + 1, last |-> calls[c].now]
               ELSE outage
  /\ UNCHANGED <<isRunning, consecutiveFailures, lastSuccessfulCheck,
                 intervalId, pendingChecks, checksStarted>>

\* ------------------------------------------------- TelegramAlertSender
\* sendToTelegram(message): throws on a transport error and on a non-2xx
\* answer, otherwise returns `result.ok === true`.
sendToTelegram(outcome) ==
  IF outcome = "ok" THEN "true"
  ELSE IF outcome = "not_ok" THEN "false" ELSE "throw"

\* if (lastAlert && now - lastAlert > this.BURST_WINDOW)
TasWindowPassed(lastAlert, t) ==
  Truthy(lastAlert) /\ t - lastAlert > TAS_BURST_WINDOW

\* this.alertCounts.set(alertKey, 0) under that condition
TasCountsAfterReset(counts, key, lastAlert, t) ==
  IF TasWindowPassed(lastAlert, t) THEN [counts EXCEPT ![key] = 0] ELSE counts

\* const currentCount = this.alertCounts.get(alertKey) || 0
TasCurrentCount(counts, key) == IF Truthy(counts[key]) THEN counts[key] ELSE 0

\* TasThrottled with the burst one alert short.
TasThrottled_OffByOne(currentCount, lastAlert, t, minInterval) ==
  /\ currentCount >= TAS_BURST_LIMIT - 1
  /\ Truthy(lastAlert)
  /\ t - lastAlert < minInterval

\* the two nested ifs that end in `return false`
TasThrottled(currentCount, lastAlert, t, minInterval) ==
  /\ currentCount >= TAS_BURST_LIMIT
  /\ Truthy(lastAlert)
  /\ t - lastAlert < minInterval

\* sendAlert(message, networkName) up to `await this.sendToTelegram(...)`
TasSendAlert(c, message, networkName) ==
  LET alertKey == TasAlertKey(networkName, message)
      lastAlert == tasLastAlertTime[alertKey]
      wasReset == TasWindowPassed(lastAlert, now)
      counts1 == TasCountsAfterReset(tasAlertCounts, alertKey, lastAlert, now)
      currentCount == TasCurrentCount(counts1, alertKey)
      throttled == TasThrottled(currentCount, lastAlert, now,
                                tasMinAlertInterval)
      e == [NoEv EXCEPT !.op = "begin", !.key = alertKey, !.last = lastAlert,
                        !.cnt = tasAlertCounts[alertKey]]
  IN
  /\ svc = "generic"
  /\ calls[c] = NoCall /\ \A d \in Calls : d < c => calls[d] # NoCall
  /\ IF ~enabled
     THEN /\ ev' = [e EXCEPT !.op = "disabled", !.result = "false"]
          /\ UNCHANGED <<tasAlertCounts, calls, fresh>>
     ELSE /\ currentCount < MaxCount
          /\ tasAlertCounts' = counts1
          /\ fresh' = [fresh EXCEPT ![alertKey] =
                FreshAfterBegin(alertKey, wasReset, ~throttled,
                                TAS_BURST_LIMIT)]
          /\ ev' = [e EXCEPT !.allowed = ~throttled, !.reset = wasReset,
                             !.result = EarlyResult(throttled),
                             !.rendered = ~throttled,
                             !.nth = Nth(alertKey, wasReset),
                             !.fromReset = IF wasReset THEN TRUE
                                           ELSE fresh[alertKey].fromReset]
          /\ IF throttled
             THEN calls' = calls
             ELSE calls' = [MarkOverlap(alertKey) EXCEPT ![c] =
                    [key |-> alertKey, now |-> now,
                     currentCount |-> currentCount,
                     preLast |-> lastAlert,
                     preCount |-> tasAlertCounts[alertKey],
                     solo |-> InFlight(alertKey) = {}]]
  /\ UNCHANGED <<tasLastAlertTime, tasMinAlertInterval, hist>>

\* The decision sendAlert takes for `key` at instant t with the given maps.
TasAllowed(times, counts, key, t, minInterval) ==
  ~TasThrottled(TasCurrentCount(TasCountsAfterReset(counts, key, times[key],
                                                    t), key),
                times[key], t, minInterval)

\* if (success) { this.lastAlertTime.set(alertKey, now); ... }
TasTimesAfterSend(times, call, success) ==
  IF success THEN [times EXCEPT ![call.key] = call.now] ELSE times

\* if (success) { ...; this.alertCounts.set(alertKey, currentCount + 1); }
TasCountsAfterSend(counts, call, success) ==
  IF success THEN [counts EXCEPT ![call.key] = call.currentCount + 1]
  ELSE counts

\* what sendAlert settles to after the await: `return success`, or the
\* `return false` of its catch block
TasSendAlertResult(outcome) ==
  IF sendToTelegram(outcome) = "throw" THEN "false"
  ELSE sendToTelegram(outcome)

\* sendAlert(message, networkName) after the await, with its catch block
TasSendComplete(c, outcome) ==
  LET call == calls[c]
      success == sendToTelegram(outcome) = "true"
  IN
  /\ svc = "generic"
  /\ call # NoCall
  /\ tasLastAlertTime' = TasTimesAfterSend(tasLastAlertTime, call, success)
  /\ tasAlertCounts' = TasCountsAfterSend(tasAlertCounts, call, success)
  /\ fresh' = IF success THEN fresh ELSE [fresh EXCEPT ![call.key] = NotFresh]
  /\ ev' = [NoEv EXCEPT !.op = "complete", !.key = call.key,
                        !.allowed = TRUE, !.success = success,
                        !.last = call.preLast, !.cnt = call.preCount,
                        !.solo = call.solo,
                        !.result = TasSendAlertResult(outcome)]
  /\ calls' = [calls EXCEPT ![c] = NoCall]
  /\ UNCHANGED <<tasMinAlertInterval, hist>>

\* TelegramAlertSender.setAlertInterval(minutes), called during set-up
TasSetAlertInterval(minutes) ==
  /\ svc = "generic"
  /\ \A k \in TasKeys : tasLastAlertTime[k] = Absent
  /\ \A c \in Calls : calls[c] = NoCall
  /\ tasMinAlertInterval' = minutes * 60 * 1000
  /\ tasMinAlertInterval' # tasMinAlertInterval
  /\ ev' = [NoEv EXCEPT !.op = "setAlertInterval"]
  /\ UNCHANGED <<tasLastAlertTime, tasAlertCounts, calls, fresh, hist>>

\* --------------------------------------------------- PriceAlertService
\* PriceIsThrottledType throttling every kind.
PriceIsThrottledType_All(type) == TRUE

\* !["startup", "config_update", "service_status"].includes(alert.type)
PriceIsThrottledType(type) ==
  type \notin {"startup", "config_update", "service_status"}

\* if (lastAlert && now - lastAlert < this.MIN_ALERT_INTERVAL)
PriceThrottled(lastAlert, t) ==
  Truthy(lastAlert) /\ t - lastAlert < PRICE_MIN_ALERT_INTERVAL

\* PriceTimesAfterDecision recording the attempt before the check.
PriceTimesAfterDecision_Eager(times, key, t, throttled) ==
  [times EXCEPT ![key] = t]

\* `return false` when throttled, else this.lastAlertTime.set(alertKey, now)
PriceTimesAfterDecision(times, key, t, throttled) ==
  IF throttled THEN times ELSE [times EXCEPT ![key] = t]

\* The decision sendAlert takes for an alert of `type` at instant t.
PriceAllowed(times, type, key, t) ==
  ~(PriceIsThrottledType(type) /\ PriceThrottled(times[key], t))

\* sendAlert(alert) up to `await this.telegramClient!.sendMessage(message)`
PriceSendAlert(c, type, currentPrice) ==
  LET alertKey == PriceAlertKey(type, currentPrice)
      lastAlert == priceLastAlertTime[alertKey]
      throttled == PriceIsThrottledType(type) /\ PriceThrottled(lastAlert, now)
      e == [NoEv EXCEPT !.op = "begin", !.key = alertKey, !.last = lastAlert]
  IN
  /\ svc = "price"
  /\ calls[c] = NoCall /\ \A d \in Calls : d < c => calls[d] # NoCall
  /\ IF ~isEnabled
     THEN /\ ev' = [e EXCEPT !.op = "disabled", !.result = "false"]
          /\ UNCHANGED <<priceLastAlertTime, calls>>
     ELSE /\ ev' = [e EXCEPT !.allowed = ~throttled, !.rendered = ~throttled,
                          !.result = EarlyResult(throttled)]
          /\ priceLastAlertTime' =
                IF PriceIsThrottledType(type)
                THEN PriceTimesAfterDecision(priceLastAlertTime, alertKey,
                                             now, throttled)
                ELSE priceLastAlertTime
          /\ IF throttled
             THEN calls' = calls
             ELSE calls' = [MarkOverlap(alertKey) EXCEPT ![c] =
                    [key |-> alertKey, now |-> now, currentCount |-> 0,
                     preLast |-> lastAlert, preCount |-> Absent,
                     solo |-> InFlight(alertKey) = {}]]
  /\ UNCHANGED <<fresh, hist>>

\* what sendAlert settles to after the await: `return success`
PriceSendAlertResult(outcome) == SendMessageResult(outcome)

\* sendAlert(alert) after the await: logs and returns the result
PriceSendComplete(c, outcome) ==
  LET call == calls[c]
      success == sendMessage(outcome)
  IN
  /\ svc = "price"
  /\ call # NoCall
  /\ ev' = [NoEv EXCEPT !.op = "complete", !.key = call.key,
                        !.allowed = TRUE, !.success = success,
                        !.last = call.preLast, !.solo = call.solo,
                        !.result = PriceSendAlertResult(outcome)]
  /\ calls' = [calls EXCEPT ![c] = NoCall]
  /\ UNCHANGED <<priceLastAlertTime, fresh, hist>>

\* ------------------------------------------------------ TornPriceMonitor
\* "interval": 300 of the documented tornPriceMonitor configuration (seconds)
DocumentedPriceInterval == 300
\* "priceChangeThreshold": 5 of the documented configuration (percent)
PriceChangeThreshold == 5
\* The intervals (seconds) that a reloaded configuration may carry.
PriceIntervals == { DocumentedPriceInterval, 60 }

\* parseFloat(s) of a decimal string, counted in millionths
Digits == <<"0", "1", "2", "3", "4", "5", "6", "7", "8", "9">>
DigitValue(ch) == (CHOOSE d \in 1..10 : Digits[d] = ch) - 1
RECURSIVE ParseDigits(_, _)
ParseDigits(s, acc) ==
  IF s = << >> THEN acc ELSE ParseDigits(Tail(s), acc * 10 + DigitValue(Head(s)))
PointAt(s) ==
  IF \E i \in 1..Len(s) : s[i] = "."
  THEN CHOOSE i \in 1..Len(s) : s[i] = "." ELSE Len(s) + 1
parseFloat(s) ==
  LET p == PointAt(s)
      fraction == SubSeq(s, p + 1, Len(s))
      padded == fraction \o [i \in 1..(6 - Len(fraction)) |-> "0"]
  IN ParseDigits(SubSeq(s, 1, p - 1), 0) * 1000000 + ParseDigits(padded, 0)

\* "high": 0.01 and "low": 0.005 of the documented priceThresholds
PriceHigh == parseFloat(<<"0", ".", "0", "1">>)
PriceLow == parseFloat(<<"0", ".", "0", "0", "5">>)

\* this.lastPrice before any price was read, and a failed getTornPriceEth()
NoPrice == << >>
FetchResults == MonitorPrices \cup {NoPrice}

\* Math.abs(changePercent) >= this.config.priceChangeThreshold, where
\* changePercent = ((currentPriceNum - lastPriceNum) / lastPriceNum) * 100
ChangeReached(lastPriceNum, currentPriceNum) ==
  LET diff == currentPriceNum - lastPriceNum
      abs == IF diff < 0 THEN -diff ELSE diff
  IN PriceChangeThreshold # 0 /\ abs * 100 >= PriceChangeThreshold * lastPriceNum

\* The alerts checkPrice raises, in order, for a new price after `last`.
AlertsDue(last, currentPrice) ==
  LET lastPriceNum == parseFloat(last)
      currentPriceNum == parseFloat(currentPrice)
  IN
  IF last = NoPrice THEN << >>
  ELSE (IF ChangeReached(lastPriceNum, currentPriceNum)
        THEN <<"price_change">> ELSE << >>)
       \o (IF PriceHigh # 0 /\ currentPriceNum >= PriceHigh
                            /\ lastPriceNum < PriceHigh
           THEN <<"price_threshold">> ELSE << >>)
       \o (IF PriceLow # 0 /\ currentPriceNum <= PriceLow
                           /\ lastPriceNum > PriceLow
           THEN <<"price_threshold">> ELSE << >>)

\* A call of start(), checkPrice() or updateConfig() in progress: where it
\* stands ("fetch": awaiting the price, "send": awaiting sendAlert, "next":
\* running), the price it read, the alerts it has still to raise, the send it
\* awaits, and whether one of its notifications failed or was suppressed.
PriceProc(op, pc) ==
  [op |-> op, pc |-> pc, price |-> NoPrice, todo |-> << >>, call |-> 0,
   failed |-> FALSE, changed |-> FALSE]

RemoveAt(s, i) == SubSeq(s, 1, i - 1) \o SubSeq(s, i + 1, Len(s))

\* Code that runs without awaiting finishes before anything else happens.
PriceQuiet == \A i \in 1..Len(priceProcs) : priceProcs[i].pc # "next"

\* Every call that is not awaiting a send can still find a free slot.
FreeSlots == Cardinality({ c \in Calls : calls[c] = NoCall })
PriceWaiting ==
  Cardinality({ i \in 1..Len(priceProcs) : priceProcs[i].pc # "send" })

\* sendAlert(alert) reaches the await of sendMessage
PriceWillSend(type, currentPrice) ==
  /\ isEnabled
  /\ PriceAllowed(priceLastAlertTime, type,
                  PriceAlertKey(type, currentPrice), now)

\* clearInterval(this.intervalId) of stop()
TimersAfterStop(timers, hasId) ==
  IF hasId THEN SubSeq(timers, 1, Len(timers) - 1) ELSE timers

\* this.intervalId = setInterval(..., this.config.interval * 1000)
TimersAfterStart(timers, interval, t) ==
  Append(timers, [interval |-> interval, due |-> t + interval * 1000])

\* this.lastPrice = currentPrice, unless getTornPriceEth() threw
LastPriceAfterCheck_OnSuccess(last, proc) ==
  IF proc.price = NoPrice \/ proc.failed THEN last ELSE proc.price

LastPriceAfterCheck(last, proc) ==
  IF proc.price = NoPrice THEN last ELSE proc.price

\* start() up to `await this.priceService.getTornPriceEth()`
PriceMonitorStart ==
  /\ svc = "price"
  /\ tornPriceMonitor
  /\ PriceQuiet
  /\ IF priceIsRunning
     THEN UNCHANGED <<priceProcs, priceWork>>
     ELSE /\ priceWork.starts < MaxPriceStarts
          /\ Len(priceProcs) < MaxPriceProcs
          /\ FreeSlots > PriceWaiting
          /\ priceProcs' = Append(priceProcs, PriceProc("start", "fetch"))
          /\ priceWork' = [priceWork EXCEPT !.starts = @ + 1]
  /\ ev' = [NoEv EXCEPT !.op = "start"]
  /\ UNCHANGED <<priceConfig, priceIsRunning, priceIntervalId, priceTimers,
                 lastPrice, priceVars, calls, fresh, hist>>

\* stop()
PriceMonitorStop ==
  /\ svc = "price"
  /\ tornPriceMonitor
  /\ PriceQuiet
  /\ IF ~priceIsRunning
     THEN UNCHANGED <<priceIsRunning, priceIntervalId, priceTimers>>
     ELSE /\ priceTimers' = TimersAfterStop(priceTimers, priceIntervalId)
          /\ priceIntervalId' = FALSE
          /\ priceIsRunning' = FALSE
  /\ ev' = [NoEv EXCEPT !.op = "stop"]
  /\ UNCHANGED <<priceConfig, lastPrice, priceProcs, priceWork, priceVars,
                 calls, fresh, hist>>

\* the callback of setInterval: this.checkPrice() up to its first await, at
\* the instant the timer is due
PriceTimerFire(i) ==
  LET timer == priceTimers[i] IN
  /\ svc = "price"
  /\ PriceQuiet
  /\ i \in 1..Len(priceTimers)
  /\ \A j \in 1..Len(priceTimers) : timer.due <= priceTimers[j].due
  /\ timer.due <= MaxTime
  /\ priceWork.checks < MaxPriceChecks
  /\ Len(priceProcs) < MaxPriceProcs
  /\ FreeSlots > PriceWaiting
  /\ now' = timer.due
  /\ priceTimers' =
       [priceTimers EXCEPT ![i].due = @ + timer.interval * 1000]
  /\ priceProcs' = Append(priceProcs, PriceProc("check", "fetch"))
  /\ priceWork' = [priceWork EXCEPT !.checks = @ + 1]
  /\ ev' = [NoEv EXCEPT !.op = "timer"]
  /\ UNCHANGED <<svc, configured, enabled, priceConfig, priceIsRunning,
                 priceIntervalId, lastPrice, priceVars, calls, fresh, hist>>

\* getTornPriceEth() answers (or throws) in start() or in checkPrice()
PriceFetched(i, result) ==
  LET proc == priceProcs[i] IN
  /\ svc = "price"
  /\ PriceQuiet
  /\ i \in 1..Len(priceProcs)
  /\ proc.pc = "fetch"
  /\ lastPrice' = IF proc.op = "start" /\ result # NoPrice
                  THEN result ELSE lastPrice
  /\ priceProcs' = [priceProcs EXCEPT ![i] =
       [proc EXCEPT !.pc = "next", !.price = result,
                    !.todo = IF result = NoPrice THEN << >>
                             ELSE IF proc.op = "start" THEN <<"startup">>
                             ELSE AlertsDue(lastPrice, result)]]
  /\ priceWork' = [priceWork EXCEPT
       !.fetched = IF result = NoPrice THEN @ ELSE result,
       !.alerted =
         IF result = NoPrice THEN @
         ELSE IF proc.op = "start" THEN result
         ELSE IF \E n \in 1..Len(AlertsDue(lastPrice, result)) :
                   AlertsDue(lastPrice, result)[n] = "price_change"
         THEN result ELSE @]
  /\ ev' = [NoEv EXCEPT !.op = "fetched", !.key = result]
  /\ UNCHANGED <<priceConfig, priceIsRunning, priceIntervalId, priceTimers,
                 priceVars, calls, fresh, hist>>

\* `await this.alertService.sendAlert({...})` of start() and checkPrice()
PriceRaise(i) ==
  LET proc == priceProcs[i]
      type == Head(proc.todo)
  IN
  /\ \E c \in Calls :
       /\ PriceSendAlert(c, type, proc.price)
       /\ priceProcs' = [priceProcs EXCEPT ![i] =
            IF PriceWillSend(type, proc.price)
            THEN [proc EXCEPT !.pc = "send", !.call = c,
                              !.todo = Tail(proc.todo)]
            ELSE [proc EXCEPT !.todo = Tail(proc.todo), !.failed = TRUE]]
  /\ UNCHANGED <<priceConfig, priceIsRunning, priceIntervalId, priceTimers,
                 lastPrice, priceWork>>

\* the end of start(): the timer is set and isRunning becomes true
PriceStartFinish(i) ==
  /\ priceTimers' = TimersAfterStart(priceTimers, priceConfig.interval, now)
  /\ priceIntervalId' = TRUE
  /\ priceIsRunning' = TRUE
  /\ priceProcs' = RemoveAt(priceProcs, i)
  /\ ev' = [NoEv EXCEPT !.op = "started", !.key = priceProcs[i].price,
                        !.success = ~priceProcs[i].failed]
  /\ UNCHANGED <<priceConfig, lastPrice, priceWork, priceVars, calls, fresh,
                 hist>>

\* the end of checkPrice(): this.lastPrice = currentPrice
PriceCheckFinish(i) ==
  /\ lastPrice' = LastPriceAfterCheck(lastPrice, priceProcs[i])
  /\ priceProcs' = RemoveAt(priceProcs, i)
  /\ priceWork' = [priceWork EXCEPT
                     !.failed = @ \/ (priceProcs[i].failed
                                        /\ priceProcs[i].price # NoPrice)]
  /\ ev' = [NoEv EXCEPT !.op = "checked", !.key = priceProcs[i].price,
                        !.success = ~priceProcs[i].failed]
  /\ UNCHANGED <<priceConfig, priceIsRunning, priceIntervalId, priceTimers,
                 priceVars, calls, fresh, hist>>

\* updateConfig(newConfig) up to the replacement of the alert service
PriceUpdateConfig(interval) ==
  LET changed == priceConfig.interval # interval IN
  /\ svc = "price"
  /\ tornPriceMonitor
  /\ PriceQuiet
  /\ priceWork.updates < MaxPriceUpdates
  /\ FreeSlots > PriceWaiting + 1
  /\ (priceIsRunning /\ changed) =>
        (priceWork.starts < MaxPriceStarts /\ Len(priceProcs) < MaxPriceProcs)
  /\ priceConfig' = [priceConfig EXCEPT !.interval = interval]
  /\ priceLastAlertTime' = [k \in PriceKeys |-> Absent]
  /\ priceProcs' = Append(priceProcs,
                          [PriceProc("update", "next") EXCEPT
                             !.changed = changed])
  /\ priceWork' = [priceWork EXCEPT !.updates = @ + 1]
  /\ ev' = [NoEv EXCEPT !.op = "update"]
  /\ UNCHANGED <<priceIsRunning, priceIntervalId, priceTimers, lastPrice,
                 calls, fresh, hist>>

\* the rest of updateConfig: sendConfigUpdateNotification(oldConfig,
\* newConfig) up to its await, then stop() and start() when the monitor was
\* running and the interval changed
PriceUpdateFinish(i) ==
  LET proc == priceProcs[i]
      restart == priceIsRunning /\ proc.changed
  IN
  /\ IF telegramClient /\ proc.changed
     THEN \E c \in Calls : PriceSendAlert(c, "config_update", NoCurrentPrice)
     ELSE /\ ev' = [NoEv EXCEPT !.op = "updated"]
          /\ UNCHANGED <<priceVars, calls, fresh, hist>>
  /\ IF restart
     THEN /\ priceTimers' = TimersAfterStop(priceTimers, priceIntervalId)
          /\ priceIntervalId' = FALSE
          /\ priceIsRunning' = FALSE
          /\ priceProcs' = Append(RemoveAt(priceProcs, i),
                                  PriceProc("start", "fetch"))
          /\ priceWork' = [priceWork EXCEPT !.starts = @ + 1]
     ELSE /\ priceProcs' = RemoveAt(priceProcs, i)
          /\ UNCHANGED <<priceTimers, priceIntervalId, priceIsRunning,
                         priceWork>>
  /\ UNCHANGED <<priceConfig, lastPrice>>

\* a call goes on after an await (or after updateConfig's first statements)
PriceContinue(i) ==
  LET proc == priceProcs[i] IN
  /\ svc = "price"
  /\ i \in 1..Len(priceProcs)
  /\ proc.pc = "next"
  /\ CASE proc.op = "update" -> PriceUpdateFinish(i)
       [] proc.op # "update" /\ proc.todo # << >> -> PriceRaise(i)
       [] proc.op = "start" /\ proc.todo = << >> -> PriceStartFinish(i)
       [] OTHER -> PriceCheckFinish(i)

\* the send awaited by start() or checkPrice() ends
PriceResume(i, outcome) ==
  LET proc == priceProcs[i] IN
  /\ svc = "price"
  /\ PriceQuiet
  /\ i \in 1..Len(priceProcs)
  /\ proc.pc = "send"
  /\ PriceSendComplete(proc.call, outcome)
  /\ priceProcs' = [priceProcs EXCEPT ![i] =
       [proc EXCEPT !.pc = "next", !.call = 0,
                    !.failed = @ \/ ~sendMessage(outcome)]]
  /\ UNCHANGED <<priceConfig, priceIsRunning, priceIntervalId, priceTimers,
                 lastPrice, priceWork>>

\* the send of a config_update notification ends: nothing awaits it
PriceNotified(c, outcome) ==
  /\ svc = "price"
  /\ PriceQuiet
  /\ \A i \in 1..Len(priceProcs) : priceProcs[i].call # c
  /\ PriceSendComplete(c, outcome)
  /\ UNCHANGED priceMonitorVars

\* ---------------------------------------------------------- ConfigLoader
\* setTimeout(() => { this.reloadConfig(); }, 500)
DebounceDelay == 500

\* The content of the configuration file: whether it is JSON, and of what;
\* its healthMonitoring section; its tornPriceMonitor section.
Content(json, health, price) ==
  [json |-> json, healthMonitoring |-> health, tornPriceMonitor |-> price]

InitialContent == Content("object", "ok", "absent")

\* what a thrown error leaves in place of a configuration
Thrown == Content("thrown", "absent", "absent")

\* contents of the file of a service that runs without a price monitor
LoaderContents ==
  { InitialContent,
    Content("malformed", "absent", "absent"),
    Content("null", "absent", "absent"),
    Content("object", "no_networks", "absent"),
    Content("object", "empty_networks", "absent"),
    Content("object", "bad_network", "absent"),
    Content("object", "other_networks", "absent"),
    Content("object", "absent", "absent") }

\* JSON.parse(content)
JSONParse(content) ==
  IF content.json = "malformed" THEN Thrown ELSE content

\* validateNetworkConfig(merged) of every network: it throws for a network
\* without apiUrl, with a small interval or timeout, ...
validateNetworkConfig(health) == health # "bad_network"

\* validateAndMergeConfig(config): reading config.healthMonitoring of null
\* throws; a healthMonitoring section present is validated
validateAndMergeConfig_Unchecked(config) ==
  IF config.json = "null" THEN Thrown ELSE config

validateAndMergeConfig(config) ==
  IF config.json = "null" THEN Thrown
  ELSE IF config.healthMonitoring = "absent" THEN config
  ELSE IF config.healthMonitoring = "no_networks" THEN Thrown
  ELSE IF config.healthMonitoring = "empty_networks" THEN Thrown
  ELSE IF ~validateNetworkConfig(config.healthMonitoring) THEN Thrown
  ELSE config

\* the try block of reloadConfig() up to the notification of the watchers
Validated(content) ==
  IF JSONParse(content) = Thrown THEN Thrown
  ELSE validateAndMergeConfig(JSONParse(content))

\* the pending timeouts after a change notification at time t:
\* if (reloadTimeout) clearTimeout(reloadTimeout);
\* reloadTimeout = setTimeout(..., 500)
Debounced_NoClear(pending, t) == pending \cup {t + DebounceDelay}

Debounced(pending, t) == {t + DebounceDelay}

NoLoaderHist ==
  [dirty |-> FALSE, lastChange |-> Absent, runLength |-> 0, runReloads |-> 0,
   rejected |-> 0, writes |-> 0, notes |-> 0]

\* gaps (ms) between two notifications of the file watcher
NotifyGaps == {200, 499, 500, 1000}

\* the constructor of TornadoMonitorService (loadConfig, then watchConfig
\* with handleConfigReload), or watchConfig(callback) of another watcher
WatchConfig ==
  /\ watcherCallbacks < MaxCallbacks
  /\ configFile = InitialContent
  /\ watcherCallbacks' = watcherCallbacks + 1
  /\ serviceConfig' = Append(serviceConfig, InitialContent)
  /\ ev' = [NoEv EXCEPT !.op = "watch"]
  /\ UNCHANGED <<configFile, reloadTimeout, loaderHist, now>>

\* the file is written
FileWrite(content) ==
  /\ loaderHist.writes < MaxFileWrites
  /\ content # configFile
  /\ configFile' = content
  /\ loaderHist' = [loaderHist EXCEPT !.dirty = TRUE, !.writes = @ + 1]
  /\ ev' = [NoEv EXCEPT !.op = "write"]
  /\ UNCHANGED <<watcherCallbacks, reloadTimeout, serviceConfig, now>>

\* the listener of watchFile runs, d ms after the previous step: a stat of
\* the file differs from the one before.  A timeout that is due by then has
\* run before it (the timers of an iteration of the event loop run before
\* its file system callbacks).
WatcherNotify(d) ==
  LET t == now + d
      newer == loaderHist.dirty      \* curr.mtime > prev.mtime
      sameRun == loaderHist.lastChange # Absent
                   /\ t - loaderHist.lastChange < DebounceDelay
  IN
  /\ watcherCallbacks >= 1
  /\ loaderHist.notes < MaxNotifications
  /\ \A due \in reloadTimeout : t < due
  /\ now' = t
  /\ reloadTimeout' = IF newer THEN Debounced(reloadTimeout, t)
                      ELSE reloadTimeout
  /\ loaderHist' =
       IF newer
       THEN [loaderHist EXCEPT !.dirty = FALSE, !.lastChange = t,
                               !.runLength = IF sameRun THEN @ + 1 ELSE 1,
                               !.runReloads = IF sameRun THEN @ ELSE 0,
                               !.notes = @ + 1]
       ELSE [loaderHist EXCEPT !.notes = @ + 1]
  /\ ev' = [NoEv EXCEPT !.op = "notify", !.allowed = newer]
  /\ UNCHANGED <<configFile, watcherCallbacks, serviceConfig>>

\* handleConfigReload(newConfig) of a service whose configuration has no
\* tornPriceMonitor section: this.config = newConfig
handleConfigReload(config, newConfig) == newConfig

\* this.watcherCallbacks.forEach((callback) => { callback(validatedConfig) })
NotifyWatchers(configs, validatedConfig) ==
  [i \in 1..Len(configs) |-> handleConfigReload(configs[i], validatedConfig)]

\* a timeout of the listener runs at its due time: reloadConfig()
ReloadTimerFire ==
  LET due == CHOOSE d \in reloadTimeout : \A e \in reloadTimeout : d <= e
      validatedConfig == Validated(configFile)
  IN
  /\ reloadTimeout # {}
  /\ now' = due
  /\ reloadTimeout' = reloadTimeout \ {due}
  /\ serviceConfig' = IF validatedConfig = Thrown THEN serviceConfig
                      ELSE NotifyWatchers(serviceConfig, validatedConfig)
  /\ loaderHist' = [loaderHist EXCEPT
                      !.runReloads = @ + 1,
                      !.rejected = IF validatedConfig = Thrown
                                   THEN @ + 1 ELSE @]
  /\ ev' = [NoEv EXCEPT !.op = "reload",
                        !.success = validatedConfig # Thrown]
  /\ UNCHANGED <<configFile, watcherCallbacks>>

\* ------------------------------------------------- TornadoMonitorService
\* handleConfigReload(newConfig) where newConfig.tornPriceMonitor.enabled is
\* false and the service holds a price monitor, up to
\* `await this.sendServiceStatusNotification('stopped', ...)`
ReloadDisable ==
  /\ svc = "price"
  /\ PriceQuiet
  /\ tornPriceMonitor
  /\ reloads.made < MaxDisables
  /\ reloads' = [reloads EXCEPT !.awaiting = @ + 1, !.made = @ + 1]
  /\ ev' = [NoEv EXCEPT !.op = "disable"]
  /\ UNCHANGED <<tornPriceMonitor, priceMonitorVars, priceVars, calls, fresh,
                 hist>>

\* the rest of it: this.tornPriceMonitor.stop() (it throws when another
\* reload has unset the monitor), this.tornPriceMonitor = undefined
ReloadDisabled ==
  /\ svc = "price"
  /\ PriceQuiet
  /\ reloads.awaiting > 0
  /\ IF tornPriceMonitor /\ priceIsRunning
     THEN /\ priceTimers' = TimersAfterStop(priceTimers, priceIntervalId)
          /\ priceIntervalId' = FALSE
          /\ priceIsRunning' = FALSE
     ELSE UNCHANGED <<priceIsRunning, priceIntervalId, priceTimers>>
  /\ tornPriceMonitor' = FALSE
  /\ reloads' = [reloads EXCEPT !.awaiting = @ - 1,
                                !.done = @ \/ tornPriceMonitor]
  /\ ev' = [NoEv EXCEPT !.op = "disabled"]
  /\ UNCHANGED <<priceConfig, lastPrice, priceProcs, priceWork, priceVars,
                 calls, fresh, hist>>

\* --------------------------------------------------------------- Database
\* transaction hashes of StakeBurned events, and the TORN prices fetched for
\* them
Hashes == {"0xaa", "0xbb"}
TornPrices == {1, 2}

\* who calls processStakeBurnedEvent
Sources == {"historical", "live"}

StakeBurnedEvent(hash, price, source) ==
  [transactionHash |-> hash, tornPriceEth |-> price, source |-> source]

\* transaction_hash VARCHAR(66) NOT NULL UNIQUE
Stored(rows, hash) ==
  \E n \in 1..Len(rows) : rows[n].transactionHash = hash

\* INSERT IGNORE INTO stake_burned_events (...) VALUES (...)
InsertIgnore_NoUniqueKey(rows, event) == Append(rows, event)

InsertIgnore(rows, event) ==
  IF Stored(rows, event.transactionHash) THEN rows ELSE Append(rows, event)

\* insertResult.affectedRows
AffectedRows(rows, event) ==
  IF Stored(rows, event.transactionHash) THEN 0 ELSE 1

\* answers of the server to a statement
DbOutcomes == {"ok", "error"}

\* saveStakeBurnedEvent(event) up to `await this.connection.execute(...)`,
\* called by processStakeBurnedEvent for the historical sync, which handles
\* one event at a time, or for the live listener
SaveStakeBurnedEvent(event) ==
  /\ dbHist.calls < MaxSaves
  /\ event.source = "historical" =>
        \A n \in 1..Len(saves) : saves[n].source # "historical"
  /\ dbHist' = [dbHist EXCEPT !.calls = @ + 1]
  /\ saves' = IF connection THEN Append(saves, event) ELSE saves
  /\ ev' = [NoEv EXCEPT !.op = "save", !.key = <<event.transactionHash>>,
                        !.success = connection]
  /\ UNCHANGED <<connection, eventTable>>

\* the server answers the statement of a call: the rest of
\* saveStakeBurnedEvent
InsertExecuted(i, outcome) ==
  LET event == saves[i] IN
  /\ i \in 1..Len(saves)
  /\ eventTable' = IF outcome = "ok" THEN InsertIgnore(eventTable, event)
                    ELSE eventTable
  /\ saves' = RemoveAt(saves, i)
  /\ ev' = [NoEv EXCEPT !.op = "insert", !.key = <<event.transactionHash>>,
                        !.nth = event.tornPriceEth,
                        !.outcome = outcome,
                        !.cnt = IF outcome = "ok"
                                THEN AffectedRows(eventTable, event) ELSE 0,
                        !.success = outcome = "ok"]
  /\ UNCHANGED <<connection, dbHist>>

\* close()
DatabaseClose ==
  /\ connection
  /\ connection' = FALSE
  /\ ev' = [NoEv EXCEPT !.op = "close"]
  /\ UNCHANGED <<eventTable, saves, dbHist>>

\* ------------------------------------------------------ TornPriceService
CACHE_DURATION == 60000

\* DEFAULT_API_URLS, by their position in the list
NumApiUrls == 3

\* What one API gives: a price, an answer without ethPrices.torn (null), or
\* an error (failed request, abort after 10 s, non-2xx status, bad body)
ApiAnswers == MonitorPrices \cup { <<"null">>, <<"error">> }

\* if (price) of getTornPriceEth
IsPrice(answer) == answer \in MonitorPrices

\* this.lastKnownPrice && Date.now() - this.lastFetchTime < CACHE_DURATION
CacheFresh_Inclusive(known, fetchTime, t) ==
  known # << >> /\ t - fetchTime <= CACHE_DURATION

CacheFresh(known, fetchTime, t) ==
  known # << >> /\ t - fetchTime < CACHE_DURATION

\* getTornPriceEth() up to its return of the cached price or to the await of
\* the first API
GetTornPriceEth ==
  /\ serviceHist.calls < MaxPriceCalls
  /\ IF CacheFresh(lastKnownPrice, lastFetchTime, now)
     THEN /\ ev' = [NoEv EXCEPT !.op = "price", !.key = lastKnownPrice,
                                !.outcome = "cached", !.success = TRUE]
          /\ serviceHist' = [serviceHist EXCEPT !.calls = @ + 1,
                                                !.succeeded = TRUE]
          /\ UNCHANGED priceCalls
     ELSE /\ priceCalls' = Append(priceCalls, [url |-> 1])
          /\ serviceHist' = [serviceHist EXCEPT !.calls = @ + 1]
          /\ ev' = [NoEv EXCEPT !.op = "request", !.nth = 1]
  /\ UNCHANGED <<lastKnownPrice, lastFetchTime, now>>

\* fetchPriceFromApi(apiUrl) ends for a call, and getTornPriceEth goes on:
\* it returns the price, asks the next API, or falls back
ApiAnswered(i, answer) ==
  LET call == priceCalls[i] IN
  /\ i \in 1..Len(priceCalls)
  /\ IF IsPrice(answer)
     THEN /\ lastKnownPrice' = answer
          /\ lastFetchTime' = now
          /\ priceCalls' = RemoveAt(priceCalls, i)
          /\ serviceHist' = [serviceHist EXCEPT !.succeeded = TRUE]
          /\ ev' = [NoEv EXCEPT !.op = "price", !.key = answer,
                                !.outcome = "fetched", !.nth = call.url,
                                !.success = TRUE]
     ELSE IF call.url < NumApiUrls
     THEN /\ priceCalls' = [priceCalls EXCEPT ![i].url = @ + 1]
          /\ ev' = [NoEv EXCEPT !.op = "request", !.nth = call.url + 1]
          /\ UNCHANGED <<lastKnownPrice, lastFetchTime, serviceHist>>
     ELSE /\ priceCalls' = RemoveAt(priceCalls, i)
          /\ serviceHist' = [serviceHist EXCEPT
                               !.succeeded = @ \/ lastKnownPrice # << >>]
          /\ ev' = [NoEv EXCEPT !.op = "price", !.key = lastKnownPrice,
                                !.outcome = IF lastKnownPrice # << >>
                                            THEN "fallback" ELSE "thrown",
                                !.nth = call.url,
                                !.success = lastKnownPrice # << >>]
          /\ UNCHANGED <<lastKnownPrice, lastFetchTime>>
  /\ UNCHANGED now

\* time passes
ServiceTick(d) ==
  /\ now + d <= StartTime + ServiceMaxMinutes * MINUTE
  /\ now' = now + d
  /\ ev' = [NoEv EXCEPT !.op = "tick"]
  /\ UNCHANGED priceServiceVars

\* --------------------------------------------------- getBlockByTimestamp
NoSearch == [pc |-> "idle", target |-> 0, low |-> 0, high |-> 0, result |-> 0]

\* the chains a provider may serve, blocks 1..latest by their timestamps,
\* and the targets asked for
Chains == UNION { [1..n -> 1..MaxStamp] : n \in 1..MaxBlocks }
Targets == 0..(MaxStamp + 1)

\* Math.floor((low + high) / 2)
Mid_Ceil(low, high) == (low + high + 1) \div 2

Mid(low, high) == (low + high) \div 2

\* getBlockByTimestamp(provider, targetTimestamp) up to the await of the
\* latest block
getBlockByTimestamp(provider, targetTimestamp) ==
  /\ search.pc = "idle"
  /\ chain' = provider
  /\ search' = [NoSearch EXCEPT !.pc = "latest", !.target = targetTimestamp]
  /\ ev' = [NoEv EXCEPT !.op = "search"]

\* the latest block arrives
LatestBlockFetched ==
  LET latestBlock == Len(chain) IN
  /\ search.pc = "latest"
  /\ search' = IF search.target >= chain[latestBlock]
               THEN [search EXCEPT !.pc = "done", !.result = latestBlock]
               ELSE [search EXCEPT !.pc = "genesis"]
  /\ ev' = [NoEv EXCEPT !.op = "block"]
  /\ UNCHANGED chain

\* block 1 arrives
GenesisBlockFetched ==
  /\ search.pc = "genesis"
  /\ search' = IF search.target <= chain[1]
               THEN [search EXCEPT !.pc = "done", !.result = 1]
               ELSE IF 1 < Len(chain)
               THEN [search EXCEPT !.pc = "loop", !.low = 1,
                                   !.high = Len(chain)]
               ELSE [search EXCEPT !.pc = "done", !.low = 1, !.high = 1,
                                   !.result = 1]
  /\ ev' = [NoEv EXCEPT !.op = "block"]
  /\ UNCHANGED chain

\* block mid arrives: one turn of the while loop, and the return when the
\* loop ends
MidBlockFetched ==
  LET mid == Mid(search.low, search.high)
      low == IF chain[mid] < search.target THEN mid + 1 ELSE search.low
      high == IF chain[mid] < search.target THEN search.high ELSE mid
  IN
  /\ search.pc = "loop"
  /\ search' = IF low < high
               THEN [search EXCEPT !.low = low, !.high = high]
               ELSE [search EXCEPT !.low = low, !.high = high,
                                   !.pc = "done", !.result = low]
  /\ ev' = [NoEv EXCEPT !.op = "block"]
  /\ UNCHANGED chain

\* ------------------------------------------- the request of checkHealth
\* config.timeout: 10 seconds, in milliseconds
ConfigTimeout == 10000

NoRequest == [pc |-> "idle", startTime |-> 0, timeoutId |-> FALSE]

\* the bodies a 2xx response may carry
Bodies == { a \in Answers : a.arrival = "answer" /\ a.ok }

\* everything a step of the request leaves alone
RequestRest ==
  UNCHANGED <<envVars, tasVars, priceVars, priceMonitorVars, loaderVars,
              tornPriceMonitor, reloads, dbVars, listenerVars, priceServiceVars, searchVars,
              emitted>>

\* checkHealth() up to `await fetch(...)`: the abort timer is armed
CheckHealthBegin ==
  /\ svc = "health"
  /\ healthRequest.pc \in {"idle", "returned"}
  /\ pendingChecks = << >>
  /\ checksStarted < PollerMaxChecks
  /\ now + ConfigTimeout <= StartTime + MaxRequestTicks * (ConfigTimeout \div 2)
  /\ healthRequest' = [pc |-> "headers", startTime |-> now, timeoutId |-> TRUE]
  /\ pendingChecks' = Append(pendingChecks, now)
  /\ checksStarted' = checksStarted + 1
  /\ ev' = [NoEv EXCEPT !.op = "request"]
  /\ UNCHANGED <<isRunning, consecutiveFailures, lastSuccessfulCheck,
                 intervalId, outage, healthVars, calls, fresh, hist,
                 lastResult>>
  /\ RequestRest

\* fetch resolves with the status line and headers: clearTimeout(timeoutId),
\* then the throw on !response.ok or the await of response.json()
ResponseArrives(ok) ==
  /\ healthRequest.pc = "headers"
  /\ IF ok
     THEN /\ healthRequest' = [healthRequest EXCEPT !.pc = "body",
                                                    !.timeoutId = FALSE]
          /\ ev' = [NoEv EXCEPT !.op = "response"]
          /\ UNCHANGED <<monitorVars, healthVars, calls, fresh, hist,
                         lastResult>>
     ELSE /\ healthRequest' = [healthRequest EXCEPT !.pc = "returned",
                                                    !.timeoutId = FALSE]
          /\ checkHealthAnswer(1, [NoAnswer("answer") EXCEPT
                                     !.body = "not_json"])
  /\ RequestRest

\* fetch rejects (connection refused, DNS failure): the catch block runs
FetchRejected ==
  /\ healthRequest.pc = "headers"
  /\ healthRequest' = [healthRequest EXCEPT !.pc = "returned"]
  /\ checkHealthAnswer(1, NoAnswer("network_error"))
  /\ RequestRest

\* the callback of setTimeout: controller.abort() rejects a fetch that has
\* not resolved, and does nothing to one that has
AbortTimeout ==
  /\ healthRequest.timeoutId
  /\ now - healthRequest.startTime >= ConfigTimeout
  /\ IF healthRequest.pc = "headers"
     THEN /\ healthRequest' = [healthRequest EXCEPT !.pc = "returned",
                                                    !.timeoutId = FALSE]
          /\ checkHealthAnswer(1, NoAnswer("timeout"))
     ELSE /\ healthRequest' = [healthRequest EXCEPT !.timeoutId = FALSE]
          /\ ev' = [NoEv EXCEPT !.op = "abort"]
          /\ UNCHANGED <<monitorVars, healthVars, calls, fresh, hist,
                         lastResult>>
  /\ RequestRest

\* response.json() resolves: the rest of the try block
BodyArrives(answer) ==
  /\ healthRequest.pc = "body"
  /\ healthRequest' = [healthRequest EXCEPT !.pc = "returned"]
  /\ checkHealthAnswer(1, answer)
  /\ RequestRest

\* half a timeout passes; a timer that is due runs first
RequestTick ==
  LET d == ConfigTimeout \div 2 IN
  /\ now + d <= StartTime + MaxRequestTicks * d
  /\ healthRequest.timeoutId
       => now + d <= healthRequest.startTime + ConfigTimeout
  /\ \A c \in Calls : calls[c] # NoCall => now + d - calls[c].now <= MaxSendDelay
  /\ now' = now + d
  /\ ev' = [NoEv EXCEPT !.op = "tick"]
  /\ UNCHANGED <<svc, configured, enabled, healthVars, tasVars, priceVars,
                 calls, fresh, hist, monitorVars, priceMonitorVars,
                 lastResult, hostVars>>

\* --------------------------------------------------- StakeBurnedListener
\* What a block holds: no StakeBurned event, one of a monitored relayer, or
\* one of another relayer
BlockKinds == {"none", "monitored", "other"}

\* the chain when the service starts: blocks 1..3, events in the last two
InitialBlocks == <<"none", "monitored", "monitored">>

NoListener == [pc |-> "idle", currentBlock |-> 0, fromBlock |-> 0,
               todo |-> << >>, subscribedAt |-> 0]

\* shouldProcessRelayer(relayer), with relayerAddresses configured
shouldProcessRelayer(kind) == kind = "monitored"

\* the block numbers in lo..hi that hold a StakeBurned event, in order
RECURSIVE EventsIn(_, _)
EventsIn(lo, hi) ==
  IF lo > hi THEN << >>
  ELSE IF lo >= 1 /\ blocks[lo] # "none"
       THEN <<lo>> \o EventsIn(lo + 1, hi)
       ELSE EventsIn(lo + 1, hi)

\* a block is mined
MineBlock(kind) ==
  /\ Len(blocks) < Len(InitialBlocks) + MaxMined
  /\ blocks' = Append(blocks, kind)
  /\ ev' = [NoEv EXCEPT !.op = "block"]
  /\ UNCHANGED <<listener, processed>>

\* TornadoMonitorService.start(): initialize(), then getHistoricalEvents()
\* up to `await this.provider.getBlockNumber()`
ListenerStart ==
  /\ listener.pc = "idle"
  /\ listener' = [listener EXCEPT !.pc = "block_number"]
  /\ ev' = [NoEv EXCEPT !.op = "start"]
  /\ UNCHANGED <<blocks, processed>>

\* getBlockNumber() answers: fromBlock is computed and queryFilter awaited;
\* an error ends the historical sync in its catch block
BlockNumberAnswered(ok) ==
  /\ listener.pc = "block_number"
  /\ listener' = IF ok
                 THEN [listener EXCEPT !.pc = "query",
                         !.currentBlock = Len(blocks),
                         !.fromBlock = Len(blocks) - HistoricalBlocks]
                 ELSE [listener EXCEPT !.pc = "subscribe"]
  /\ ev' = [NoEv EXCEPT !.op = "block_number", !.success = ok]
  /\ UNCHANGED <<blocks, processed>>

\* queryFilter(filter, fromBlock, "latest") answers with the events up to
\* the block that is the latest then, or fails
QueryAnswered(ok) ==
  /\ listener.pc = "query"
  /\ listener' = IF ok
                 THEN [listener EXCEPT !.pc = "processing",
                         !.todo = EventsIn(listener.fromBlock, Len(blocks))]
                 ELSE [listener EXCEPT !.pc = "subscribe"]
  /\ ev' = [NoEv EXCEPT !.op = "query", !.success = ok]
  /\ UNCHANGED <<blocks, processed>>

\* one turn of the for loop: the relayer filter, getBlock for the
\* timestamp, processStakeBurnedEvent; the end of the loop ends the sync
ProcessHistorical(blockFetched) ==
  /\ listener.pc = "processing"
  /\ IF listener.todo = << >>
     THEN /\ listener' = [listener EXCEPT !.pc = "subscribe"]
          /\ UNCHANGED processed
     ELSE /\ listener' = [listener EXCEPT !.todo = Tail(@)]
          /\ processed' =
               IF shouldProcessRelayer(blocks[Head(listener.todo)])
                  /\ blockFetched
               THEN processed \cup {Head(listener.todo)}
               ELSE processed
  /\ ev' = [NoEv EXCEPT !.op = "historical", !.success = blockFetched]
  /\ UNCHANGED blocks

\* startListening(): contract.on("StakeBurned", ...) subscribes to the
\* events of the blocks after the one that is the latest then
StartListening ==
  /\ listener.pc = "subscribe"
  /\ listener' = [listener EXCEPT !.pc = "listening",
                                  !.subscribedAt = Len(blocks)]
  /\ ev' = [NoEv EXCEPT !.op = "listening"]
  /\ UNCHANGED <<blocks, processed>>

\* the callback of contract.on for the event of a block
LiveEvent(b) ==
  /\ listener.pc = "listening"
  /\ b \in (listener.subscribedAt + 1)..Len(blocks)
  /\ blocks[b] # "none"
  /\ b \notin processed
  /\ shouldProcessRelayer(blocks[b])
  /\ processed' = processed \cup {b}
  /\ ev' = [NoEv EXCEPT !.op = "live"]
  /\ UNCHANGED <<blocks, listener>>

\* ------------------------------------------------------------- the clock
\* The clock jumps to the instants around the thresholds of the keys that
\* have been alerted: there the decision for a key can change.
NextTimes ==
  { lastAlertTime[k] + d :
      k \in { x \in HealthKeys : Truthy(lastAlertTime[x]) },
      d \in { MIN_ALERT_INTERVAL - 1, MIN_ALERT_INTERVAL,
              BURST_WINDOW, BURST_WINDOW + 1 } }
  \cup
  { tasLastAlertTime[k] + d :
      k \in { x \in TasKeys : Truthy(tasLastAlertTime[x]) },
      d \in { tasMinAlertInterval - 1, tasMinAlertInterval,
              TAS_BURST_WINDOW, TAS_BURST_WINDOW + 1 } }
  \cup
  { t \in { priceLastAlertTime[k] + d :
             k \in { x \in PriceKeys : Truthy(priceLastAlertTime[x]) },
             d \in { PRICE_MIN_ALERT_INTERVAL - 1, PRICE_MIN_ALERT_INTERVAL } } :
      t <= StartTime + PriceMaxMinutes * MINUTE }

\* The clock may move on while sends are awaited, for MaxSendDelay at most.
ClockMayReach(t) ==
  /\ t > now /\ t <= MaxTime
  /\ \A c \in Calls : calls[c] # NoCall => t - calls[c].now <= MaxSendDelay

Tick ==
  /\ \E t \in NextTimes : ClockMayReach(t) /\ now' = t
  /\ ev' = [NoEv EXCEPT !.op = "tick"]
  /\ UNCHANGED <<svc, configured, enabled, healthVars, tasVars, priceVars, calls, fresh,
                 hist, monitorVars, priceMonitorVars, lastResult, hostVars>>

\* ------------------------------------------------------------------ spec
InitFields ==
  /\ now = StartTime
  /\ lastAlertTime = [k \in HealthKeys |-> Absent]
  /\ alertCounts = [k \in HealthKeys |-> Absent]
  /\ MIN_ALERT_INTERVAL = DEFAULT_MIN_ALERT_INTERVAL
  /\ tasLastAlertTime = [k \in TasKeys |-> Absent]
  /\ tasAlertCounts = [k \in TasKeys |-> Absent]
  /\ tasMinAlertInterval = TAS_DEFAULT_MIN_ALERT_INTERVAL
  /\ priceLastAlertTime = [k \in PriceKeys |-> Absent]
  /\ calls = [c \in Calls |-> NoCall]
  /\ fresh = [k \in AllKeys |-> [n |-> 0, fromReset |-> FALSE]]
  /\ hist = << >>
  /\ isRunning = FALSE
  /\ consecutiveFailures = 0
  /\ lastSuccessfulCheck = Absent
  /\ intervalId = 0
  /\ pendingChecks = << >>
  /\ checksStarted = 0
  /\ outage = NoOutage
  /\ priceConfig = [interval |-> DocumentedPriceInterval]
  /\ priceIsRunning = FALSE
  /\ priceIntervalId = FALSE
  /\ priceTimers = << >>
  /\ lastPrice = NoPrice
  /\ priceProcs = << >>
  /\ priceWork = [starts |-> 0, checks |-> 0, updates |-> 0, failed |-> FALSE,
                  alerted |-> NoPrice, fetched |-> NoPrice]
  /\ lastResult = NoResult
  /\ configFile = InitialContent
  /\ watcherCallbacks = 0
  /\ reloadTimeout = {}
  /\ serviceConfig = << >>
  /\ loaderHist = NoLoaderHist
  /\ tornPriceMonitor = TRUE
  /\ reloads = [awaiting |-> 0, made |-> 0, done |-> FALSE]
  /\ connection = TRUE
  /\ eventTable = << >>
  /\ saves = << >>
  /\ dbHist = [calls |-> 0]
  /\ lastKnownPrice = << >>
  /\ lastFetchTime = 0
  /\ priceCalls = << >>
  /\ serviceHist = [calls |-> 0, succeeded |-> FALSE]
  /\ chain = << >>
  /\ search = NoSearch
  /\ healthRequest = NoRequest
  /\ emitted = << >>
  /\ blocks = InitialBlocks
  /\ listener = NoListener
  /\ processed = {}
  /\ ev = NoEv

\* HealthAlertService and PriceAlertService may be built without a
\* TelegramConfig, TelegramAlertSender needs one.
Init ==
  /\ svc \in {"health", "generic", "price"}
  /\ configured \in BOOLEAN
  /\ enabled \in BOOLEAN
  /\ ~configured => (svc # "generic" /\ ~enabled)
  /\ InitFields

HealthApi(networks, slots) ==
  \/ \E c \in slots, n \in networks, m \in Messages :
        /\ HealthSendAlert(c, n, m)
        /\ UNCHANGED <<envVars, tasVars, priceVars, monitorVars, priceMonitorVars, lastResult, hostVars>>
  \/ \E c \in Calls, o \in Outcomes :
        /\ HealthSendComplete(c, o)
        /\ UNCHANGED <<envVars, tasVars, priceVars, monitorVars, priceMonitorVars, lastResult, hostVars>>

HealthSetUp ==
  \E m \in IntervalMinutes :
     /\ setAlertInterval(m)
     /\ UNCHANGED <<envVars, tasVars, priceVars, monitorVars, priceMonitorVars, lastResult, hostVars>>

TasApi(networks, slots) ==
  \/ \E c \in slots, n \in networks, m \in Messages :
        /\ TasSendAlert(c, m, n)
        /\ UNCHANGED <<envVars, healthVars, priceVars, monitorVars, priceMonitorVars, lastResult, hostVars>>
  \/ \E c \in Calls, o \in Outcomes :
        /\ TasSendComplete(c, o)
        /\ UNCHANGED <<envVars, healthVars, priceVars, monitorVars, priceMonitorVars, lastResult, hostVars>>

TasSetUp ==
  \E m \in IntervalMinutes :
     /\ TasSetAlertInterval(m)
     /\ UNCHANGED <<envVars, healthVars, priceVars, monitorVars, priceMonitorVars, lastResult, hostVars>>

PriceApi ==
  \/ \E c \in Calls, ty \in PriceTypes, p \in Prices :
        /\ PriceSendAlert(c, ty, p)
        /\ UNCHANGED <<envVars, healthVars, tasVars, monitorVars, priceMonitorVars, lastResult, hostVars>>
  \/ \E c \in Calls, o \in Outcomes :
        /\ PriceSendComplete(c, o)
        /\ UNCHANGED <<envVars, healthVars, tasVars, monitorVars, priceMonitorVars, lastResult, hostVars>>

\* testConnection() of TelegramClient: sendMessage(testMessage) inside a
\* try block whose catch returns false
ClientTestConnection(outcome) ==
  IF SendMessageResult(outcome) = "reject" THEN "false"
  ELSE SendMessageResult(outcome)

\* testConnection() of HealthAlertService and of PriceAlertService:
\* this.telegramClient?.testConnection() ?? false
ServiceTestConnection(outcome) ==
  IF ~telegramClient THEN "false" ELSE ClientTestConnection(outcome)

\* testConnection() of TelegramAlertSender: sendToTelegram(testMessage)
\* inside a try block whose catch returns false
TasTestConnection(outcome) ==
  IF sendToTelegram(outcome) = "throw" THEN "false"
  ELSE sendToTelegram(outcome)

\* The test message goes out to Telegram: TelegramClient.sendMessage returns
\* before its fetch when the config is disabled, sendToTelegram never does.
TestMessageSent ==
  IF svc = "generic" THEN TRUE ELSE telegramClient /\ enabled

\* testConnection() of the service in use, from the call to its result
TestConnection(outcome) ==
  /\ ev' = [NoEv EXCEPT
              !.op = "test", !.rendered = TestMessageSent,
              !.outcome = outcome,
              !.result = IF svc = "generic" THEN TasTestConnection(outcome)
                         ELSE ServiceTestConnection(outcome)]
  /\ UNCHANGED <<envVars, healthVars, tasVars, priceVars, calls, fresh, hist,
                 monitorVars, priceMonitorVars, lastResult, hostVars>>

\* One service of any kind, one send at a time, with its connection test.
NextDiagnostics ==
  \/ HealthApi({<<"ethereum">>}, {1})
  \/ TasApi({<<"ethereum">>}, {1})
  \/ PriceApi
  \/ Tick
  \/ \E o \in Outcomes : TestConnection(o)

\* One service instance serving one network, as each monitor builds it.
Next ==
  \/ HealthSetUp
  \/ HealthApi({<<"ethereum">>}, Calls)
  \/ TasSetUp
  \/ TasApi({<<"ethereum">>}, Calls)
  \/ PriceApi
  \/ Tick

Spec == Init /\ [][Next]_vars

SpecDiagnostics == Init /\ [][NextDiagnostics]_vars

\* The scenario: one enabled HealthAlertService with the default constants,
\* asked at whole minutes after the start.
TickScenario ==
  /\ \E m \in ScenarioMinutes :
        ClockMayReach(StartTime + m * MINUTE) /\ now' = StartTime + m * MINUTE
  /\ ev' = [NoEv EXCEPT !.op = "tick"]
  /\ UNCHANGED <<svc, configured, enabled, healthVars, tasVars, priceVars, calls, fresh,
                 hist, monitorVars, priceMonitorVars, lastResult, hostVars>>

InitScenario ==
  /\ svc = "health"
  /\ configured = TRUE
  /\ enabled = TRUE
  /\ InitFields

NextScenario ==
  \/ HealthApi({<<"ethereum">>}, Calls)
  \/ TickScenario

SpecScenario == InitScenario /\ [][NextScenario]_vars

\* One HealthAlertService asked about several networks, one send at a time.
InitScopes ==
  /\ svc = "health"
  /\ configured = TRUE
  /\ enabled = TRUE
  /\ InitFields

NextScopes ==
  \/ HealthApi(Networks, {1})
  \/ Tick

SpecScopes == InitScopes /\ [][NextScopes]_vars

\* The three senders side by side: each attempt is made on all of them at
\* the same instant, for the same network and message (for the price sender
\* a price_change alert of one price), and its send has the same outcome.
\* Every call is awaited before the next one is made.
SendersPrice == <<"0.005">>
SendersAttempt(networkName, message, outcome) ==
  LET alertKey == AlertKey(networkName, message)
      lastAlert == lastAlertTime[alertKey]
      counts1 == CountsAfterReset(alertCounts, alertKey, lastAlert, now)
      currentCount == CurrentCount(counts1, alertKey)
      throttled == Throttled(currentCount, lastAlert, now, MIN_ALERT_INTERVAL)
      call == [NoCall EXCEPT !.key = alertKey, !.now = now,
                             !.currentCount = currentCount]
      success == sendMessage(outcome)
      tasKey == TasAlertKey(networkName, message)
      tasLast == tasLastAlertTime[tasKey]
      tasCounts1 == TasCountsAfterReset(tasAlertCounts, tasKey, tasLast, now)
      tasCount == TasCurrentCount(tasCounts1, tasKey)
      tasThrottled == TasThrottled(tasCount, tasLast, now, tasMinAlertInterval)
      tasCall == [NoCall EXCEPT !.key = tasKey, !.now = now,
                                !.currentCount = tasCount]
      tasSuccess == sendToTelegram(outcome) = "true"
      priceKey == PriceAlertKey("price_change", SendersPrice)
      priceThrottled == /\ PriceIsThrottledType("price_change")
                        /\ PriceThrottled(priceLastAlertTime[priceKey], now)
  IN
  /\ svc = "all"
  /\ isEnabled
  /\ currentCount < MaxCount /\ tasCount < MaxCount
  /\ lastAlertTime' = IF throttled THEN lastAlertTime
                       ELSE TimesAfterSend(lastAlertTime, call, success)
  /\ alertCounts' = IF throttled THEN counts1
                     ELSE CountsAfterSend(counts1, call, success)
  /\ tasLastAlertTime' = IF tasThrottled THEN tasLastAlertTime
                          ELSE TasTimesAfterSend(tasLastAlertTime, tasCall,
                                                 tasSuccess)
  /\ tasAlertCounts' = IF tasThrottled THEN tasCounts1
                        ELSE TasCountsAfterSend(tasCounts1, tasCall,
                                                tasSuccess)
  /\ priceLastAlertTime' = PriceTimesAfterDecision(priceLastAlertTime,
                                                   priceKey, now,
                                                   priceThrottled)
  /\ ev' = [NoEv EXCEPT !.op = "attempt", !.key = alertKey,
                        !.allowed = ~throttled, !.generic = ~tasThrottled,
                        !.price = ~priceThrottled, !.success = success,
                        !.last = priceLastAlertTime[priceKey],
                        !.outcome = outcome,
                        !.result = SendMessageResult(outcome)]
  /\ UNCHANGED <<envVars, MIN_ALERT_INTERVAL, tasMinAlertInterval, calls,
                 fresh, hist, monitorVars, priceMonitorVars, lastResult, hostVars>>

InitSenders ==
  /\ svc = "all"
  /\ configured = TRUE
  /\ enabled = TRUE
  /\ InitFields

NextSenders ==
  \/ \E n \in {<<"ethereum">>}, m \in Messages, o \in Outcomes :
        SendersAttempt(n, m, o)
  \/ Tick

SpecSenders == InitSenders /\ [][NextSenders]_vars

\* One TornPriceMonitor with its PriceAlertService: started, stopped and
\* reconfigured while its timers fire.
InitPriceMonitor ==
  /\ svc = "price"
  /\ configured = TRUE
  /\ enabled \in BOOLEAN
  /\ InitFields

PriceMonitorFrame ==
  UNCHANGED <<envVars, healthVars, tasVars, monitorVars, lastResult, hostVars>>

NextPriceMonitorWith(fetchResults) ==
  \/ PriceMonitorStart /\ PriceMonitorFrame
  \/ PriceMonitorStop /\ PriceMonitorFrame
  \/ \E i \in 1..MaxPriceStarts :
        /\ PriceTimerFire(i)
        /\ UNCHANGED <<healthVars, tasVars, monitorVars, lastResult, hostVars>>
  \/ \E i \in 1..MaxPriceProcs, r \in fetchResults :
        PriceFetched(i, r) /\ PriceMonitorFrame
  \/ \E i \in 1..(MaxPriceProcs + 1) : PriceContinue(i) /\ PriceMonitorFrame
  \/ \E i \in 1..MaxPriceProcs, o \in Outcomes :
        PriceResume(i, o) /\ PriceMonitorFrame
  \/ \E c \in Calls, o \in Outcomes : PriceNotified(c, o) /\ PriceMonitorFrame
  \/ \E s \in PriceIntervals : PriceUpdateConfig(s) /\ PriceMonitorFrame

NextPriceMonitor == NextPriceMonitorWith(FetchResults)

SpecPriceMonitor == InitPriceMonitor /\ [][NextPriceMonitor]_vars

\* The same monitor while the price drifts in small steps.
NextPriceDrift == NextPriceMonitorWith(DriftPrices \cup {NoPrice})

SpecPriceDrift == InitPriceMonitor /\ [][NextPriceDrift]_vars

\* The same monitor while the price moves across the thresholds.
NextPriceThresholds == NextPriceMonitorWith(ThresholdPrices \cup {NoPrice})

SpecPriceThresholds == InitPriceMonitor /\ [][NextPriceThresholds]_vars

\* The same monitor where the event loop is fair: a price request is
\* answered and code that can run does run. Nothing makes Telegram answer,
\* so a send may stay pending for ever.
PriceFetchedStep ==
  \E i \in 1..MaxPriceProcs, r \in FetchResults :
     PriceFetched(i, r) /\ PriceMonitorFrame
PriceContinueStep ==
  \E i \in 1..(MaxPriceProcs + 1) : PriceContinue(i) /\ PriceMonitorFrame
SpecPriceMonitorLive ==
  /\ InitPriceMonitor
  /\ [][NextPriceMonitor]_vars
  /\ WF_vars(PriceFetchedStep)
  /\ WF_vars(PriceContinueStep)

\* The pollers and the senders they notify through: a TornadoHealthMonitor
\* with its HealthAlertService, a TelegramAlertSender, or a TornPriceMonitor
\* with its PriceAlertService, with Telegram enabled or disabled.
InitPollers ==
  /\ svc \in {"health", "generic", "price"}
  /\ configured = TRUE
  /\ enabled \in BOOLEAN
  /\ InitFields

HealthMonitorFrame ==
  UNCHANGED <<envVars, tasVars, priceVars, priceMonitorVars, lastResult, hostVars>>

NextPollers ==
  \/ /\ MonitorStart
     /\ isRunning \/ checksStarted < PollerMaxChecks
     /\ HealthMonitorFrame
  \/ MonitorStop /\ HealthMonitorFrame
  \/ TimerFire /\ checksStarted < PollerMaxChecks
  \/ \E i \in 1..MaxPendingChecks, o \in AllCheckOutcomes :
        checkHealth(i, o) /\ HealthMonitorFrame
  \/ \E c \in MonitorCalls, o \in Outcomes :
        MonitorSendComplete(c, o) /\ HealthMonitorFrame
  \/ TasApi({<<"ethereum">>}, {1})
  \/ NextPriceMonitor

SpecPollers == InitPollers /\ [][NextPollers]_vars

\* One TornadoHealthMonitor with its HealthAlertService.
InitMonitor ==
  /\ svc = "health"
  /\ configured = TRUE
  /\ enabled \in BOOLEAN
  /\ InitFields

NextMonitor ==
  \/ MonitorStart /\ UNCHANGED <<envVars, tasVars, priceVars, priceMonitorVars, lastResult, hostVars>>
  \/ MonitorStop /\ UNCHANGED <<envVars, tasVars, priceVars, priceMonitorVars, lastResult, hostVars>>
  \/ TimerFire
  \/ \E i \in 1..MaxPendingChecks, o \in CheckOutcomes :
        checkHealth(i, o) /\ UNCHANGED <<envVars, tasVars, priceVars, priceMonitorVars, lastResult, hostVars>>
  \/ \E c \in MonitorCalls, o \in Outcomes :
        MonitorSendComplete(c, o) /\ UNCHANGED <<envVars, tasVars, priceVars, priceMonitorVars, lastResult, hostVars>>

SpecMonitor == InitMonitor /\ [][NextMonitor]_vars

\* One health monitor whose checks are given every kind of answer.
HealthAnswerFrame ==
  UNCHANGED <<envVars, tasVars, priceVars, priceMonitorVars, hostVars>>

NextAnswers ==
  \/ /\ MonitorStart
     /\ isRunning \/ checksStarted < PollerMaxChecks
     /\ HealthAnswerFrame /\ UNCHANGED <<lastResult, hostVars>>
  \/ MonitorStop /\ HealthAnswerFrame /\ UNCHANGED <<lastResult, hostVars>>
  \/ TimerFire /\ checksStarted < PollerMaxChecks
  \/ \E i \in 1..MaxPendingChecks, a \in Answers :
        checkHealthAnswer(i, a) /\ HealthAnswerFrame
  \/ \E c \in MonitorCalls, o \in Outcomes :
        MonitorSendComplete(c, o) /\ HealthAnswerFrame /\ UNCHANGED <<lastResult, hostVars>>

SpecAnswers == InitMonitor /\ [][NextAnswers]_vars

\* The configuration loader of a service that runs without a price monitor.
LoaderFrame ==
  UNCHANGED <<svc, configured, enabled, healthVars, tasVars, priceVars, calls,
              fresh, hist, monitorVars, priceMonitorVars, lastResult,
              tornPriceMonitor, reloads, dbVars, listenerVars, priceServiceVars, searchVars,
              requestVars>>

NextLoader ==
  \/ WatchConfig /\ LoaderFrame
  \/ \E content \in LoaderContents : FileWrite(content) /\ LoaderFrame
  \/ \E d \in NotifyGaps : WatcherNotify(d) /\ LoaderFrame
  \/ ReloadTimerFire /\ LoaderFrame

SpecLoader == InitMonitor /\ [][NextLoader]_vars


\* The price monitor of a service whose configuration is reloaded.
ReloadFrame ==
  UNCHANGED <<envVars, healthVars, tasVars, monitorVars, lastResult,
              loaderVars, dbVars, listenerVars, priceServiceVars,
              searchVars, requestVars>>

NextReload ==
  \/ NextPriceMonitor
  \/ ReloadDisable /\ ReloadFrame
  \/ ReloadDisabled /\ ReloadFrame

SpecReload == InitPriceMonitor /\ [][NextReload]_vars

\* The event table and the calls that save into it.
DatabaseFrame ==
  UNCHANGED <<envVars, healthVars, tasVars, priceVars, calls, fresh, hist,
              monitorVars, priceMonitorVars, lastResult, loaderVars,
              tornPriceMonitor, reloads, priceServiceVars, searchVars,
              requestVars, listenerVars>>

NextDatabase ==
  \/ \E h \in Hashes, p \in TornPrices, s \in Sources :
        SaveStakeBurnedEvent(StakeBurnedEvent(h, p, s)) /\ DatabaseFrame
  \/ \E i \in 1..MaxSaves, o \in DbOutcomes :
        InsertExecuted(i, o) /\ DatabaseFrame
  \/ DatabaseClose /\ DatabaseFrame

SpecDatabase == InitMonitor /\ [][NextDatabase]_vars

\* The price service and its callers.
PriceServiceFrame ==
  UNCHANGED <<svc, configured, enabled, healthVars, tasVars, priceVars, calls,
              fresh, hist, monitorVars, priceMonitorVars, lastResult,
              loaderVars, tornPriceMonitor, reloads, dbVars, listenerVars, searchVars,
              requestVars>>

NextPriceService ==
  \/ GetTornPriceEth /\ PriceServiceFrame
  \/ \E i \in 1..MaxPriceCalls, a \in ApiAnswers :
        ApiAnswered(i, a) /\ PriceServiceFrame
  \/ \E d \in {CACHE_DURATION - 1, CACHE_DURATION} : ServiceTick(d) /\ PriceServiceFrame

SpecPriceService == InitMonitor /\ [][NextPriceService]_vars

\* One search of a block by its timestamp.
BlockSearchFrame ==
  UNCHANGED <<envVars, healthVars, tasVars, priceVars, calls, fresh, hist,
              monitorVars, priceMonitorVars, lastResult, loaderVars,
              tornPriceMonitor, reloads, dbVars, listenerVars, priceServiceVars,
              requestVars>>

NextBlockSearch ==
  \/ /\ search.pc = "idle"
     /\ \E c \in Chains, t \in Targets :
          getBlockByTimestamp(c, t) /\ BlockSearchFrame
  \/ LatestBlockFetched /\ BlockSearchFrame
  \/ GenesisBlockFetched /\ BlockSearchFrame
  \/ MidBlockFetched /\ BlockSearchFrame

SpecBlockSearch ==
  InitMonitor /\ [][NextBlockSearch]_vars /\ WF_vars(NextBlockSearch)

\* Single health checks with the steps of their request.
RequestSendComplete ==
  \E c \in MonitorCalls, o \in Outcomes :
    /\ MonitorSendComplete(c, o)
    /\ UNCHANGED <<envVars, tasVars, priceVars, priceMonitorVars, lastResult,
                   hostVars>>

NextHealthRequest ==
  \/ CheckHealthBegin
  \/ \E ok \in BOOLEAN : ResponseArrives(ok)
  \/ FetchRejected
  \/ AbortTimeout
  \/ \E a \in Bodies : BodyArrives(a)
  \/ RequestTick
  \/ RequestSendComplete

\* timers that are due fire, time passes, and a send to Telegram ends; the
\* endpoint owes nothing
SpecHealthRequest ==
  /\ InitMonitor /\ [][NextHealthRequest]_vars
  /\ WF_vars(AbortTimeout) /\ WF_vars(RequestTick)
  /\ WF_vars(RequestSendComplete)

\* One enabled HealthAlertService with the default constants, asked about
\* one key by calls that do not overlap, minutes and seconds apart.
BurstFrame ==
  UNCHANGED <<tasVars, priceVars, monitorVars, priceMonitorVars, lastResult,
              loaderVars, tornPriceMonitor, reloads, dbVars, listenerVars, priceServiceVars,
              searchVars, healthRequest>>

LastThree(s) == IF Len(s) > BURST_LIMIT THEN Tail(s) ELSE s

BurstSendAlert ==
  /\ HealthSendAlert(1, ConfigName, RecoveryMessage)
  /\ UNCHANGED <<envVars, emitted>>
  /\ BurstFrame

BurstSendComplete(outcome) ==
  /\ HealthSendComplete(1, outcome)
  /\ emitted' = IF sendMessage(outcome)
                THEN LastThree(Append(emitted, now))
                ELSE emitted
  /\ UNCHANGED envVars
  /\ BurstFrame

BurstTick(d) ==
  /\ now + d <= StartTime + BurstMaxMinutes * MINUTE
  /\ ClockMayReach(now + d)
  /\ now' = now + d
  /\ ev' = [NoEv EXCEPT !.op = "tick"]
  /\ UNCHANGED <<svc, configured, enabled, healthVars, calls, fresh, hist,
                 emitted>>
  /\ BurstFrame

NextBursts ==
  \/ BurstSendAlert
  \/ \E o \in Outcomes : BurstSendComplete(o)
  \/ \E d \in {MINUTE, 4 * MINUTE - 1} : BurstTick(d)

SpecBursts == InitScenario /\ [][NextBursts]_vars

\* One health monitor started and stopped at any time, its endpoint
\* answering healthy or not at all.
NextTimers ==
  \/ /\ MonitorStart
     /\ isRunning \/ checksStarted < PollerMaxChecks
     /\ HealthMonitorFrame
  \/ MonitorStop /\ HealthMonitorFrame
  \/ TimerFire /\ checksStarted < PollerMaxChecks
  \/ \E i \in 1..MaxPendingChecks :
        \E o \in { <<"healthy", 0>>, <<"error", 0>> } :
          checkHealth(i, o) /\ HealthMonitorFrame
  \/ \E c \in MonitorCalls, o \in {"ok", "not_ok"} :
        MonitorSendComplete(c, o) /\ HealthMonitorFrame

SpecTimers == InitMonitor /\ [][NextTimers]_vars

\* The StakeBurned listener from the start of the service on, and the chain.
ListenerFrame ==
  UNCHANGED <<envVars, healthVars, tasVars, priceVars, calls, fresh, hist,
              monitorVars, priceMonitorVars, lastResult, loaderVars,
              tornPriceMonitor, reloads, dbVars, priceServiceVars, searchVars,
              requestVars>>

ListenerStep ==
  \/ ListenerStart /\ ListenerFrame
  \/ \E ok \in BOOLEAN : BlockNumberAnswered(ok) /\ ListenerFrame
  \/ \E ok \in BOOLEAN : QueryAnswered(ok) /\ ListenerFrame
  \/ \E f \in BOOLEAN : ProcessHistorical(f) /\ ListenerFrame
  \/ StartListening /\ ListenerFrame
  \/ \E b \in 1..(Len(InitialBlocks) + MaxMined) : LiveEvent(b) /\ ListenerFrame

NextListener ==
  \/ \E k \in BlockKinds : MineBlock(k) /\ ListenerFrame
  \/ ListenerStep

SpecListener == InitMonitor /\ [][NextListener]_vars

\* ================================================================ claims
Burstable == svc \in {"health", "generic"}
InFlightAt(key, t) ==
  \E c \in Calls : calls[c] # NoCall /\ calls[c].key = key /\ calls[c].now = t

\* The decision the service in use takes for `key` at t, given the entries
\* (last, cnt) of that key.
DecisionWith(key, last, cnt, t) ==
  IF svc = "health"
  THEN Allowed([lastAlertTime EXCEPT ![key] = last],
               [alertCounts EXCEPT ![key] = cnt], key, t, MIN_ALERT_INTERVAL)
  ELSE IF svc = "generic"
  THEN TasAllowed([tasLastAlertTime EXCEPT ![key] = last],
                  [tasAlertCounts EXCEPT ![key] = cnt], key, t,
                  tasMinAlertInterval)
  ELSE PriceAllowed([priceLastAlertTime EXCEPT ![key] = last], key[1], key, t)
LastOf(key) ==
  IF svc = "health" THEN lastAlertTime[key]
  ELSE IF svc = "generic" THEN tasLastAlertTime[key]
  ELSE priceLastAlertTime[key]
CountOf(key) ==
  IF svc = "health" THEN alertCounts[key]
  ELSE IF svc = "generic" THEN tasAlertCounts[key] ELSE Absent
KeysInUse ==
  IF svc = "health" THEN HealthKeys
  ELSE IF svc = "generic" THEN TasKeys ELSE PriceKeys
MinIntervalInUse ==
  IF svc = "health" THEN MIN_ALERT_INTERVAL ELSE tasMinAlertInterval
CountValue(x) == IF Truthy(x) THEN x ELSE 0

\* C1: for a key whose burst counter is absent or was just reset, each of the
\* first BURST_LIMIT attempts of HealthAlertService and TelegramAlertSender,
\* made one after the other with every earlier send successful, is allowed
\* and handed to the Telegram client, whatever the time between them.
C1_BurstAllowance ==
  (Burstable /\ ev.op = "begin" /\ ev.nth \in 1..BURST_LIMIT)
    => (ev.allowed /\ InFlightAt(ev.key, now))

C1_Witness ==
  /\ svc = "generic" /\ ev.op = "begin" /\ ev.nth = BURST_LIMIT
  /\ ev.allowed /\ ~ev.fromReset
  /\ ev.cnt = BURST_LIMIT - 1 /\ now = ev.last

\* C2: once BURST_LIMIT emissions of a key are recorded, a sendAlert at
\* lastAlert + MIN_ALERT_INTERVAL - 1 is suppressed and one at
\* lastAlert + MIN_ALERT_INTERVAL is allowed.
C2_SteadyStateBoundary ==
  (Burstable /\ ev.op = "begin" /\ CountValue(ev.cnt) >= BURST_LIMIT
     /\ Truthy(ev.last))
    => /\ (now = ev.last + MinIntervalInUse - 1) => ~ev.allowed
       /\ (now = ev.last + MinIntervalInUse) => ev.allowed

\* C3: a sendAlert made more than BURST_WINDOW after the last emission of its
\* key sets the key's burst counter to 0 and is allowed, and so are the
\* BURST_LIMIT - 1 attempts after it, whatever MIN_ALERT_INTERVAL is.
C3_BurstWindowReset ==
  /\ (svc = "health" /\ ev.op = "begin" /\ Truthy(ev.last)
        /\ now - ev.last > BURST_WINDOW)
       => (ev.reset /\ ev.allowed /\ (ev.nth # 0 => ev.nth = 1))
  /\ (svc = "health" /\ ev.op = "begin" /\ ev.reset)
       => (ev.allowed /\ CountValue(alertCounts[ev.key]) = 0)
  /\ (svc = "health" /\ ev.op = "begin" /\ ev.fromReset
        /\ ev.nth \in 1..BURST_LIMIT)
       => ev.allowed

C3_Witness ==
  /\ svc = "health" /\ ev.op = "begin" /\ ev.fromReset
  /\ ev.nth = BURST_LIMIT /\ ev.allowed
  /\ MIN_ALERT_INTERVAL > BURST_WINDOW
  /\ now - ev.last < MIN_ALERT_INTERVAL

\* C5: a send of HealthAlertService or TelegramAlertSender that was allowed
\* and then failed leaves the key's timestamp where it was, does not raise
\* its burst count, and leaves the decision for the key as it would be had
\* the attempt not been made.
C5_FailedSendKeepsBudget ==
  (Burstable /\ ev.op = "complete" /\ ~ev.success /\ ev.solo)
    => /\ LastOf(ev.key) = ev.last
       /\ CountValue(CountOf(ev.key)) <= CountValue(ev.cnt)
       /\ \A t \in {now, now + 1} :
            DecisionWith(ev.key, LastOf(ev.key), CountOf(ev.key), t)
              = DecisionWith(ev.key, ev.last, ev.cnt, t)

C5_Witness ==
  /\ svc = "health" /\ ev.op = "complete" /\ ~ev.success /\ ev.solo
  /\ CountValue(ev.cnt) >= BURST_LIMIT
  /\ alertCounts[ev.key] = 0

\* C6: a price_change or price_threshold alert that was allowed and whose
\* send failed leaves the throttle entry of its key as it was, and the
\* decision for the key as it would be had the attempt not been made.
C6_PriceFailedSendKeepsBudget ==
  (svc = "price" /\ ev.op = "complete" /\ ~ev.success /\ ev.solo
     /\ PriceIsThrottledType(ev.key[1]))
    => /\ priceLastAlertTime[ev.key] = ev.last
       /\ DecisionWith(ev.key, priceLastAlertTime[ev.key], Absent, now)
            = DecisionWith(ev.key, ev.last, Absent, now)

\* C8: two overlapping sendAlert calls for one key are never both allowed
\* when a single burst slot was left.
C8_AtomicAllow ==
  \A c1, c2 \in Calls :
    (c1 # c2 /\ calls[c1] # NoCall /\ calls[c2] # NoCall
       /\ calls[c1].key = calls[c2].key /\ Burstable)
      => ~(calls[c1].currentCount = BURST_LIMIT - 1
             /\ calls[c2].currentCount = BURST_LIMIT - 1)

\* C10: a sendAlert that is suppressed renders nothing, hands nothing to the
\* Telegram client and leaves every timestamp and burst count as it was.
C10_SuppressionNoSideEffects ==
  [][(ev'.op = "begin" /\ ~ev'.allowed)
       => (/\ UNCHANGED <<healthVars, tasVars, priceVars, calls>>
           /\ ~ev'.rendered)]_vars

C10_Witness ==
  /\ svc = "price" /\ ev.op = "begin" /\ ~ev.allowed
  /\ now = ev.last + PRICE_MIN_ALERT_INTERVAL - 1

HistMinutes == [i \in 1..Len(hist) |-> hist[i][1]]
HistAllowed == [i \in 1..Len(hist) |-> hist[i][2]]
IsPrefix(p, q) == Len(p) <= Len(q) /\ \A i \in 1..Len(p) : p[i] = q[i]
NothingInFlight == \A c \in Calls : calls[c] = NoCall

\* C4 as stated: attempts at 0, 1 and 2 minutes are allowed, the one at 3 is
\* suppressed, the one at 6 is allowed, and the one at 25 resets the burst
\* counter and is allowed.
C4_ScenarioAsStated ==
  (hist # OffScript /\ IsPrefix(HistMinutes, <<0, 1, 2, 3, 6, 25>>))
    => /\ IsPrefix(HistAllowed, <<TRUE, TRUE, TRUE, FALSE, TRUE, TRUE>>)
       /\ Len(hist) = 6 => hist[6][3]

\* C4 amended: attempts at 0, 1 and 2 minutes are allowed, those at 3 and at
\* 6 are suppressed (6 is 4 minutes after the emission at 2), the one at 7 is
\* allowed, and the one at 25 resets the burst counter and is allowed.
C4_Scenario ==
  (hist # OffScript /\ IsPrefix(HistMinutes, <<0, 1, 2, 3, 6, 7, 25>>))
    => /\ IsPrefix(HistAllowed,
                   <<TRUE, TRUE, TRUE, FALSE, FALSE, TRUE, TRUE>>)
       /\ \A i \in 1..Len(hist) : hist[i][3] = (i = 7)

C4_Witness ==
  /\ HistMinutes = <<0, 1, 2, 3, 6, 7, 25>>
  /\ ev.op = "complete" /\ ev.success /\ NothingInFlight
  /\ alertCounts[ScenarioKey] = 1
  /\ lastAlertTime[ScenarioKey] = StartTime + 25 * MINUTE

\* C9: what one network's alerts do to a HealthAlertService leaves the
\* timestamp and the burst count of every other network's key, and the
\* decision for it, as they were, also when the message text is the same.
C9_ScopeIndependence ==
  [][\A n1, n2 \in Networks, m1, m2 \in Messages :
       (n1 # n2 /\ ev'.op \in {"begin", "complete"}
          /\ ev'.key = AlertKey(n1, m1))
         => LET k2 == AlertKey(n2, m2) IN
            /\ lastAlertTime'[k2] = lastAlertTime[k2]
            /\ alertCounts'[k2] = alertCounts[k2]
            /\ Allowed(lastAlertTime', alertCounts', k2, now,
                       MIN_ALERT_INTERVAL)
                 = Allowed(lastAlertTime, alertCounts, k2, now,
                           MIN_ALERT_INTERVAL)]_vars

C9_Witness ==
  LET k1 == AlertKey(<<"ethereum">>, RecoveryMessage)
      k2 == AlertKey(<<"bsc">>, RecoveryMessage)
  IN
  /\ ev.op = "begin" /\ ev.key = k2 /\ ev.allowed /\ ev.nth = 1
  /\ CountValue(alertCounts[k1]) >= BURST_LIMIT
  /\ ~Allowed(lastAlertTime, alertCounts, k1, now, MIN_ALERT_INTERVAL)

\* C7: the alerts of one continuing outage share one throttle key, so once
\* BURST_LIMIT of them have been sent, a further one raised less than
\* MIN_ALERT_INTERVAL after the last is suppressed.
C7_SemanticAlertKey ==
  (ev.op = "begin" /\ IsFailureKey(ev.key) /\ outage.sent >= BURST_LIMIT
     /\ now - outage.last < MIN_ALERT_INTERVAL)
    => ~ev.allowed

\* C11: without a TelegramConfig, or with enabled = false, sendAlert of each
\* service returns false for every payload, the exempt kinds included, hands
\* nothing to Telegram and leaves every throttle entry as it was.
C11_DisabledChannel ==
  [][(~(configured /\ enabled) /\ ev'.op \in {"begin", "disabled"})
       => (/\ ev'.op = "disabled" /\ ~ev'.allowed /\ ~ev'.rendered
           /\ UNCHANGED <<healthVars, tasVars, priceVars, calls>>
           /\ \A k \in KeysInUse : LastOf(k) = Absent /\ CountOf(k) = Absent)]_vars

C11_Witness ==
  /\ svc = "price" /\ ~configured /\ ev.op = "disabled"
  /\ ev.key = PriceAlertKey("startup", <<"0.005">>)
  /\ priceLastAlertTime[ev.key] = Absent /\ NothingInFlight

\* C12: with an enabled client a price alert of kind startup, config_update
\* or service_status is always handed to the Telegram client, whatever the
\* entries of the throttle are, and leaves every entry as it was.
C12_ExemptKinds ==
  [][(svc = "price" /\ ev'.op = "begin"
        /\ ev'.key[1] \in {"startup", "config_update", "service_status"})
       => (/\ ev'.allowed
           /\ \E c \in Calls : /\ calls[c] = NoCall
                                /\ calls'[c] # NoCall
                                /\ calls'[c].key = ev'.key
                                /\ calls'[c].now = now
           /\ UNCHANGED priceVars)]_vars

C12_Witness ==
  /\ svc = "price" /\ ev.op = "begin" /\ ev.allowed
  /\ ev.key = PriceAlertKey("startup", <<"0.005">>)
  /\ \A c \in Calls : calls[c] # NoCall /\ calls[c].key = ev.key
                          /\ calls[c].now = now
  /\ priceLastAlertTime[PriceAlertKey("price_change", <<"0.005">>)] = now

\* C13 as stated: the three senders take the same decision for every attempt
\* of a sequence made on all of them.
C13_OneThrottle ==
  ev.op = "attempt" => (ev.generic = ev.allowed /\ ev.price = ev.allowed)

\* C14: once BURST_LIMIT emissions of a key are recorded, the next successful
\* emission of the key comes no earlier than MIN_ALERT_INTERVAL after the
\* previous one, whatever value setAlertInterval has given it.
C14_MinimumInterval ==
  (Burstable /\ ev.op = "complete" /\ ev.success /\ ev.solo
     /\ CountValue(ev.cnt) >= BURST_LIMIT /\ Truthy(ev.last))
    => LastOf(ev.key) - ev.last >= MinIntervalInUse

\* C15: the same message for the same network is never sent twice within
\* the cooldown, MIN_ALERT_INTERVAL: every successful emission of a key comes
\* at least MIN_ALERT_INTERVAL after the previous one.
C15_Cooldown ==
  (Burstable /\ ev.op = "complete" /\ ev.success /\ ev.solo
     /\ Truthy(ev.last))
    => LastOf(ev.key) - ev.last >= MinIntervalInUse

\* C16: the burst counter of a key never decreases except by a reset to 0,
\* and a reset is made only by a sendAlert for that key that finds
\* now - lastAlert > BURST_WINDOW; overlapping calls included.
C16_BurstCounter ==
  [][\A k \in HealthKeys :
       \/ CountValue(alertCounts'[k]) >= CountValue(alertCounts[k])
       \/ /\ alertCounts'[k] = 0
          /\ ev'.op = "begin" /\ ev'.key = k
          /\ Truthy(lastAlertTime[k])
          /\ now - lastAlertTime[k] > BURST_WINDOW]_vars

\* C17: the recorded lastAlertTime of a key is the time of its most recent
\* successful emission and never moves backwards, overlapping calls
\* included.
C17_LastEmission ==
  [][\A k \in HealthKeys :
       Truthy(lastAlertTime[k]) => lastAlertTime'[k] >= lastAlertTime[k]]_vars

\* C18: once a throttle entry exists for a key, no step of the alert service
\* or of the poller that owns it (start, stop, updateConfig) removes it: an
\* entry that is present stays present.
C18_ThrottleStateKept ==
  [][\A k \in KeysInUse : LastOf(k) # Absent => LastOf(k)' # Absent]_vars

\* A notification that failed or was suppressed in the step taken last:
\* sendAlert returned false because the channel is disabled or the alert is
\* throttled, or its send ended without success.
NotificationLost ==
  \/ ev.op = "disabled"
  \/ ev.op = "begin" /\ ~ev.allowed
  \/ ev.op = "complete" /\ ~ev.success

\* C20: sendAlert of every alert service settles to true or false and never
\* rejects, whatever the answer of the transport; the step in which a
\* notification fails or is suppressed leaves the timers and the running
\* flag of the poller as they are, ends no start() or checkPrice() call and
\* lets the one that awaited the notification go on; every health check that ends has consecutiveFailures
\* updated, every price check that read a price ends with lastPrice set to
\* it, and every start() of the price monitor ends with its timer set,
\* whether the notifications succeeded or not.
C20_FailuresContained ==
  [][/\ (ev'.op \in {"complete", "disabled"} \/ (ev'.op = "begin" /\ ~ev'.allowed))
          => ev'.result \in {"true", "false"}
     /\ NotificationLost'
          => /\ isRunning' = isRunning /\ intervalId' = intervalId
             /\ priceIsRunning' = priceIsRunning
             /\ priceIntervalId' = priceIntervalId
             /\ priceTimers' = priceTimers
             /\ Len(priceProcs') = Len(priceProcs)
             /\ \A i \in 1..Len(priceProcs) :
                   /\ priceProcs'[i].op = priceProcs[i].op
                   /\ priceProcs[i].pc = "next" => priceProcs'[i].pc = "next"
                   /\ (/\ priceProcs[i].pc = "send"
                       /\ calls'[priceProcs[i].call] = NoCall)
                        => priceProcs'[i].pc = "next"
     /\ Len(pendingChecks') < Len(pendingChecks)
          => \/ consecutiveFailures' = consecutiveFailures + 1
             \/ /\ consecutiveFailures' \in {0, 1}
                /\ lastSuccessfulCheck' # Absent
     /\ (ev'.op = "checked" /\ ev'.key # NoPrice) => lastPrice' = ev'.key
     /\ ev'.op = "started"
          => /\ priceIsRunning' /\ priceIntervalId'
             /\ Len(priceTimers') = Len(priceTimers) + 1]_vars

\* A price check whose notification failed or was suppressed has ended with
\* lastPrice updated, and the timer it left in place has fired again.
C20_Witness ==
  /\ svc = "price"
  /\ priceWork.failed
  /\ priceWork.checks = 2
  /\ ev.op = "timer"
  /\ priceTimers # << >>

\* A start() of the price monitor is in progress.
PriceStarting ==
  \E i \in 1..Len(priceProcs) : priceProcs[i].op = "start"

\* C21: a send that stays pending does not keep the price monitor from being
\* started: every start() in progress gets its polling timer set, also when
\* Telegram never answers.
C21_HungSendDoesNotStall == PriceStarting ~> priceIntervalId

\* C22: testConnection sends its test message whatever the throttle state
\* of any key, exactly when the channel is enabled, leaves every recorded
\* timestamp and burst count as it is, and returns false when the client is
\* absent or disabled.
C22_TestConnection ==
  [][ev'.op = "test"
       => /\ UNCHANGED <<healthVars, tasVars, priceVars, calls>>
          /\ ev'.rendered = isEnabled
          /\ ~isEnabled => ev'.result = "false"
          /\ isEnabled => (ev'.result = "true" <=> ev'.outcome = "ok")
          /\ ev'.result \in {"true", "false"}]_vars

\* C23: after setAlertInterval(0) no sendAlert of an enabled burst throttle
\* is suppressed, neither during the burst nor after BURST_LIMIT emissions
\* have been recorded.
C23_ZeroInterval ==
  (Burstable /\ MinIntervalInUse = 0 /\ ev.op = "begin") => ev.allowed

\* With a zero interval, an alert is allowed although the burst is used up
\* and the last emission of its key was made at this very instant.
C23_Witness ==
  /\ Burstable /\ MinIntervalInUse = 0
  /\ ev.op = "begin" /\ ev.allowed
  /\ ev.cnt >= BURST_LIMIT
  /\ ev.last = now

\* C24: a check that is not healthy attempts no failure alert while the
\* count of consecutive failures it brings about is below
\* maxConsecutiveFailures, and attempts one whenever the count had already
\* reached maxConsecutiveFailures before it, whatever made the check fail.
C24_FailuresBeforeAlerting ==
  [][(/\ Len(pendingChecks') < Len(pendingChecks)
      /\ consecutiveFailures' = consecutiveFailures + 1)
       => /\ consecutiveFailures' < ConfigMaxConsecutiveFailures
               => ~(ev'.op \in {"begin", "disabled"} /\ IsFailureKey(ev'.key))
          /\ consecutiveFailures >= ConfigMaxConsecutiveFailures
               => (ev'.op \in {"begin", "disabled"} /\ IsFailureKey(ev'.key))]_vars

\* The conditions under which the documentation calls a network healthy.
HealthConditions(answer) ==
  /\ answer.arrival = "answer" /\ answer.ok
  /\ answer.body # "not_json" /\ validateResponse(answer) = "true"
  /\ answer.status = "true"
  /\ answer.currentQueue <= ConfigMaxQueue

\* C25: checkHealth reports isHealthy = true exactly when the endpoint
\* answered in time with a successful status, the body passes
\* validateResponse, health.status is "true" and currentQueue <= maxQueue;
\* otherwise it reports false and the check adds one to consecutiveFailures.
C25_HealthClassification ==
  [][Len(pendingChecks') < Len(pendingChecks)
       => /\ lastResult'.isHealthy = HealthConditions(lastResult'.answer)
          /\ lastResult'.isHealthy => consecutiveFailures' = 0
          /\ ~lastResult'.isHealthy
               => consecutiveFailures' = consecutiveFailures + 1]_vars

\* C26: a check that reads a price raises a price_change alert exactly when
\* the change against the price that triggered the latest price_change
\* alert (the price read at start, before any alert) reaches
\* priceChangeThreshold, whatever the previous check read.
C26_ReferencePrice ==
  [][(ev'.op = "fetched" /\ ev'.key # NoPrice /\ priceWork.alerted # NoPrice)
       => \A i \in 1..Len(priceProcs) :
            (priceProcs[i].op = "check" /\ priceProcs[i].pc = "fetch"
               /\ priceProcs'[i].pc = "next")
              => ((\E n \in 1..Len(priceProcs'[i].todo) :
                     priceProcs'[i].todo[n] = "price_change")
                  <=> ChangeReached(parseFloat(priceWork.alerted),
                                    parseFloat(ev'.key)))]_vars

\* C19: TelegramClient.sendMessage settles to false on a transport error, on
\* a non-2xx status, on a body that is not JSON and on an answer whose ok is
\* not true, settles to true exactly for a 2xx answer with ok = true, and
\* never rejects.
C19_ClientNeverRaises ==
  ev.op = "attempt"
    => /\ ev.result \in {"true", "false"}
       /\ ev.result = "true" <=> ev.outcome = "ok"
       /\ ev.success = (ev.result = "true")

C19_Witness ==
  /\ ev.op = "attempt" /\ ev.allowed
  /\ ev.outcome = "bad_body" /\ ev.result = "false"
  /\ lastAlertTime[ev.key] = Absent

TypeOK ==
  /\ now \in StartTime..MaxTime
  /\ \A k \in HealthKeys : alertCounts[k] \in {Absent} \cup 0..MaxCount

\* a step that is a reload of the configuration file
Reloading == loaderHist'.runReloads = loaderHist.runReloads + 1

\* content that cannot be parsed, or whose healthMonitoring section fails
\* the validation
RejectedContent(content) ==
  \/ content.json \in {"malformed", "null"}
  \/ content.healthMonitoring \in
       {"no_networks", "empty_networks", "bad_network"}

ValidContent(content) ==
  /\ content.json = "object"
  /\ content.healthMonitoring \in {"absent", "ok", "other_networks"}

\* C27: a reload of a file whose content cannot be parsed or fails the
\* validation invokes no watcher callback, so every service keeps the
\* configuration it had; a reload of a file with valid content hands that
\* content to every registered callback.
C27_InvalidConfigRejected ==
  [][Reloading =>
       /\ RejectedContent(configFile) => serviceConfig' = serviceConfig
       /\ ValidContent(configFile) =>
            \A i \in 1..watcherCallbacks : serviceConfig'[i] = configFile]_vars

C27_Witness ==
  /\ ev.op = "reload"
  /\ loaderHist.rejected >= 1
  /\ watcherCallbacks = MaxCallbacks
  /\ ValidContent(configFile)
  /\ configFile # InitialContent
  /\ \A i \in 1..watcherCallbacks : serviceConfig[i] = configFile

\* C28: a reload happens 500 ms after the latest change notification and is
\* the only one of the run of notifications that ended with it; until then
\* the one pending timeout is the one set by the latest notification.
C28_ReloadDebounced ==
  [][/\ Reloading =>
          /\ now' = loaderHist.lastChange + DebounceDelay
          /\ loaderHist.runReloads = 0
     /\ (loaderHist'.lastChange # Absent /\ loaderHist'.runReloads = 0) =>
          reloadTimeout' = {loaderHist'.lastChange + DebounceDelay}]_vars

C28_Witness ==
  /\ ev.op = "reload"
  /\ loaderHist.runLength >= 2
  /\ loaderHist.runReloads = 1
  /\ now = loaderHist.lastChange + DebounceDelay

\* C29: once a reload that disables the price monitor has been processed,
\* no timer of the monitor is active and no further price check starts.
C29_DisabledByReload ==
  [][reloads'.done =>
       /\ priceTimers' = << >>
       /\ priceWork'.checks = priceWork.checks]_vars

\* a step in which the server has executed the statement of a save
InsertAnswered == Len(saves') < Len(saves) /\ ev'.outcome = "ok"

\* C30: no two rows of the event table have the same transaction hash; a
\* save of an event whose hash is stored, once the server has executed it,
\* leaves the table as it was and does not throw.
C30_DuplicatePrevention ==
  [][/\ \A m, n \in 1..Len(eventTable') :
          eventTable'[m].transactionHash = eventTable'[n].transactionHash
            => m = n
     /\ (InsertAnswered /\ Stored(eventTable, ev'.key[1])) =>
          (eventTable' = eventTable /\ ev'.success)
     /\ (InsertAnswered /\ ~Stored(eventTable, ev'.key[1])) =>
          Stored(eventTable', ev'.key[1])]_vars

C30_Witness ==
  /\ ev.op = "insert"
  /\ ev.outcome = "ok"
  /\ ev.cnt = 0
  /\ ev.success
  /\ \E n \in 1..Len(eventTable) :
       /\ eventTable[n].transactionHash = ev.key[1]
       /\ eventTable[n].tornPriceEth # ev.nth
       /\ eventTable[n].source = "historical"
  /\ Len(eventTable) = 2

\* a step in which sendAlert was called with the recovery alert
RecoveryAttempted ==
  /\ ev'.op \in {"begin", "disabled"}
  /\ ev'.key = AlertKey(ConfigName, RecoveryMessage)

\* C31: a check whose answer is healthy attempts a recovery alert exactly
\* when consecutiveFailures was above 0 before it was processed, and attempts
\* none when the check before it was healthy too.
C31_RecoveryAlert ==
  [][(/\ Len(pendingChecks') < Len(pendingChecks)
      /\ HealthConditions(lastResult'.answer))
       => /\ RecoveryAttempted <=> consecutiveFailures > 0
          /\ (lastResult # NoResult /\ HealthConditions(lastResult.answer))
               => ~RecoveryAttempted]_vars

\* the threshold alerts that a check which read `current` after `previous`
\* is to attempt: one for a crossing of high, one for a crossing of low
CrossingsDue(previous, current) ==
  IF previous = NoPrice \/ current = NoPrice THEN 0
  ELSE (IF parseFloat(current) >= PriceHigh /\ parseFloat(previous) < PriceHigh
        THEN 1 ELSE 0)
       + (IF parseFloat(current) <= PriceLow /\ parseFloat(previous) > PriceLow
          THEN 1 ELSE 0)

ThresholdAlerts(todo) ==
  Cardinality({ n \in 1..Len(todo) : todo[n] = "price_threshold" })

\* C32: a check attempts a threshold alert for each threshold that the price
\* it read has crossed since the price read before it, and no other: none
\* while the price stays beyond a threshold, none without an earlier price.
C32_ThresholdCrossing ==
  [][\A i \in 1..Len(priceProcs) :
       (/\ priceProcs[i].op = "check" /\ priceProcs[i].pc = "fetch"
        /\ Len(priceProcs') = Len(priceProcs)
        /\ priceProcs'[i].pc = "next")
         => ThresholdAlerts(priceProcs'[i].todo)
              = CrossingsDue(priceWork.fetched, priceProcs'[i].price)]_vars

\* a step that is a call of getTornPriceEth, and one that is the answer of
\* an API to the call at position i
PriceCalled == serviceHist'.calls = serviceHist.calls + 1
PriceAnsweredAt(i) ==
  /\ serviceHist'.calls = serviceHist.calls
  /\ i \in 1..Len(priceCalls)
  /\ \/ /\ Len(priceCalls') = Len(priceCalls)
        /\ priceCalls'[i] # priceCalls[i]
     \/ /\ Len(priceCalls') < Len(priceCalls)
        /\ priceCalls' = RemoveAt(priceCalls, i)

\* C33: a call returns the cached price without a request while the last
\* successful fetch is less than 60 s old and otherwise asks the first URL; a
\* call whose URL gives a price returns and caches it; one whose URL fails
\* asks the next URL of the list, and after the last URL returns the last
\* known price, or throws when there is none; no call throws once a call has
\* returned a price.
C33_PriceFallback ==
  [][/\ PriceCalled =>
          IF lastKnownPrice # << >> /\ now - lastFetchTime < 60000
          THEN /\ priceCalls' = priceCalls
               /\ ev'.outcome = "cached" /\ ev'.key = lastKnownPrice
          ELSE priceCalls' = Append(priceCalls, [url |-> 1])
     /\ ev'.outcome = "fetched" =>
          (lastKnownPrice' = ev'.key /\ lastFetchTime' = now')
     /\ \A i \in 1..Len(priceCalls) :
          (PriceAnsweredAt(i) /\ ev'.outcome # "fetched") =>
             IF priceCalls[i].url < NumApiUrls
             THEN /\ Len(priceCalls') = Len(priceCalls)
                  /\ priceCalls'[i].url = priceCalls[i].url + 1
             ELSE IF lastKnownPrice # << >>
             THEN ev'.outcome = "fallback" /\ ev'.key = lastKnownPrice
             ELSE ev'.outcome = "thrown"
     /\ ev'.outcome = "thrown" => ~serviceHist.succeeded]_vars

C33_Witness ==
  /\ ev.op = "price"
  /\ ev.outcome = "fallback"
  /\ ev.nth = NumApiUrls
  /\ now - lastFetchTime >= CACHE_DURATION
  /\ ev.key = lastKnownPrice

\* timestamps that are non-decreasing in the block number
NonDecreasing(c) == \A m, n \in 1..Len(c) : m <= n => c[m] <= c[n]

\* the smallest block number whose timestamp is at or after the target
SmallestAtOrAfter(c, t) ==
  CHOOSE n \in 1..Len(c) :
    /\ c[n] >= t
    /\ \A m \in 1..(n - 1) : c[m] < t

SearchReturned == search.pc = "done" /\ NonDecreasing(chain)

\* C34 as stated: the search terminates, and on non-decreasing timestamps it
\* returns the smallest block at or after a target strictly between the
\* timestamps of block 1 and of the latest block, the latest block for every
\* target at or after its timestamp, and 1 for every target at or before the
\* timestamp of block 1.
C34_AsStated ==
  /\ [](SearchReturned =>
         /\ (chain[1] < search.target /\ search.target < chain[Len(chain)])
              => search.result = SmallestAtOrAfter(chain, search.target)
         /\ search.target >= chain[Len(chain)] => search.result = Len(chain)
         /\ search.target <= chain[1] => search.result = 1)
  /\ (search.pc = "latest" ~> search.pc = "done")

\* C34: the search terminates, and on non-decreasing timestamps it returns
\* the latest block for every target at or after its timestamp, else 1 for
\* every target at or before the timestamp of block 1, else the smallest
\* block whose timestamp is at or after the target.
C34_BlockByTimestamp ==
  /\ [](SearchReturned =>
         search.result =
           IF search.target >= chain[Len(chain)] THEN Len(chain)
           ELSE IF search.target <= chain[1] THEN 1
           ELSE SmallestAtOrAfter(chain, search.target))
  /\ (search.pc = "latest" ~> search.pc = "done")

C34_Witness ==
  /\ SearchReturned
  /\ Len(chain) = MaxBlocks
  /\ chain[1] < search.target /\ search.target < chain[Len(chain)]
  /\ search.result = 3
  /\ chain[2] < search.target
  /\ chain[3] = chain[4] - 1

RequestInFlight == healthRequest.pc \in {"headers", "body"}

\* C35: every checkHealth call returns; a request is not in flight beyond
\* the configured timeout, and a call whose response was not complete
\* within the timeout returns a failed check.
C35_CheckTimeout ==
  /\ [](RequestInFlight => now - healthRequest.startTime <= ConfigTimeout)
  /\ [][(RequestInFlight /\ healthRequest'.pc = "returned"
           /\ now - healthRequest.startTime > ConfigTimeout)
          => (~lastResult'.isHealthy
              /\ consecutiveFailures' = consecutiveFailures + 1)]_vars
  /\ (RequestInFlight ~> healthRequest.pc = "returned")

\* C36: one interval timer is active while isRunning is true and none while
\* it is false; start() on a running monitor creates no timer and runs no
\* check; a check is initiated only by start() on a stopped monitor or by
\* the timer of a running one, so none is initiated after stop().
C36_SingleTimer ==
  /\ [](intervalId = IF isRunning THEN 1 ELSE 0)
  /\ [][/\ (ev'.op = "start" /\ isRunning)
            => (/\ intervalId' = intervalId
                /\ checksStarted' = checksStarted
                /\ pendingChecks' = pendingChecks)
        /\ checksStarted' # checksStarted
            => (/\ checksStarted' = checksStarted + 1
                /\ \/ ev'.op = "start" /\ ~isRunning
                   \/ ev'.op = "timer" /\ isRunning)
        /\ ev'.op = "stop" => (~isRunning' /\ intervalId' = 0)]_vars

C36_Witness ==
  /\ ev.op = "start"
  /\ isRunning
  /\ pendingChecks = << >>
  /\ checksStarted >= 2
  /\ intervalId = 1

\* C37: a TornPriceMonitor has at most one active polling interval, and
\* none while it is stopped.
C37_SinglePriceInterval ==
  /\ Len(priceTimers) <= 1
  /\ ~priceIsRunning => priceTimers = << >>

C39_FailureCount ==
  [][IF Len(pendingChecks') < Len(pendingChecks)
     THEN IF lastResult'.isHealthy
          THEN consecutiveFailures' = 0
          ELSE /\ consecutiveFailures' = consecutiveFailures + 1
               /\ lastSuccessfulCheck' = lastSuccessfulCheck
     ELSE /\ consecutiveFailures' = consecutiveFailures
          /\ lastSuccessfulCheck' = lastSuccessfulCheck]_vars

\* the blocks at or after (currentBlock - historicalBlocks) that hold an
\* event of a monitored relayer
EventsDue ==
  { b \in 1..Len(blocks) :
      /\ b >= listener.fromBlock
      /\ shouldProcessRelayer(blocks[b]) }

\* the events the subscription has still to deliver
LiveOutstanding ==
  { b \in (listener.subscribedAt + 1)..Len(blocks) :
      shouldProcessRelayer(blocks[b]) /\ b \notin processed }

\* C40: every event of a monitored relayer mined at or after block
\* (currentBlock - historicalBlocks) is passed to processStakeBurnedEvent
\* by the historical sync or by the live listener: once the listener is
\* subscribed and has handled what was delivered to it, none is missing.
C40_NoEventMissed ==
  (/\ listener.pc = "listening"
   /\ listener.currentBlock > 0
   /\ LiveOutstanding = {})
    => EventsDue \subseteq processed

====
